---- MODULE Spec2Model ----
(***************************************************************************)
(* Monitoring state machine of CosmoTrigger: one decision cycle            *)
(* (monitorChain) made of ensureChainIdentity, checkNodeLiveness,          *)
(* detectUpgradePlan and handleUpgradeExecution, driven by the scheduler   *)
(* loop startMonitoring.  The gateways (chain data, pipeline trigger) are  *)
(* the environment: every response they can produce is drawn from a small  *)
(* set.  Optional values (T | null) are sequences of length at most one.   *)
(*                                                                         *)
(* Spec is the loop with gateways that return; SpecFault adds gateways     *)
(* that throw, SpecLive adds a fair event loop, SpecSched adds the earlier *)
(* recursive timer-callback scheduler; SpecDelay runs the cancellable wait *)
(* by itself and SpecGitlab the pipeline trigger with its status polling.  *)
(* SpecCosmos runs the three chain data operations on every kind of        *)
(* answer of the node, SpecHealth the readiness handler and SpecConfig     *)
(* loadConfig with its cache.                                              *)
(***************************************************************************)
EXTENDS Integers, Sequences, FiniteSets, TLC

\* ------------------------------------------------------------------ bounds
MaxHeight == 2
MaxCycles == 3
MaxDelays == 2
MaxPolls == 3
MaxLen == 2
MaxSegments == 2

\* --------------------------------------------------------------- constants
LONG_POLL_INTERVAL_MS == 10000
POST_UPGRADE_WAIT_MS == 600000
ERROR_RETRY_INTERVAL_MS == 5000
POLL_INTERVAL_MS == 10000
TERMINAL_STATUSES == {"success", "failed", "canceled", "skipped"}
NON_TERMINAL_STATUSES == {"pending", "running", "manual", "created"}

\* ------------------------------------------------------ values and helpers
Null == <<>>
Some(v) == <<v>>
Val(o) == o[1]

\* JavaScript truthiness of a (number | null): null and 0 are both falsy.
Falsy(o) == o = Null \/ Val(o) = 0

Heights == 0..MaxHeight
OptHeights == {Null} \cup {Some(h) : h \in Heights}
Identities == {"nodeA", "nodeB"}
OptIdentities == {Null} \cup {Some(i) : i \in Identities}
PollIntervals == {2000, 10000}

IdentityCached_always(id) == TRUE

IdentityCached_never(id) == FALSE

\* ensureChainIdentity: state.chainIdentity !== null
IdentityCached(id) == id # Null

ShouldWait_never(r) == FALSE

\* checkNodeLiveness: !currentHeight
ShouldWait(r) == Falsy(r)

PlanCached_truthy(p) == ~Falsy(p)

\* detectUpgradePlan: state.upgradePlanBlockHeight !== null
PlanCached(p) == p # Null

\* monitorChain: !state.upgradePlanBlockHeight
NoPlan(p) == Falsy(p)

NotDue_flipped(p, h) == Falsy(p) \/ Val(h) > Val(p)

\* handleUpgradeExecution: !plan || currentHeight < plan
NotDue(p, h) == Falsy(p) \/ Val(h) < Val(p)

PlanAfterSuccess_kept(p) == p

\* handleUpgradeExecution, success branch: state.upgradePlanBlockHeight = null
PlanAfterSuccess(p) == Null

PlanAfterFailure_cleared(p) == Null

\* handleUpgradeExecution, failure branch leaves the plan in place
PlanAfterFailure(p) == p

IdentityAfterRefresh_validated(old, r) == IF r = Null THEN old ELSE r

\* handleUpgradeExecution: state.chainIdentity = await deps.getChainIdentity()
IdentityAfterRefresh(old, r) == r

\* ------------------------------------------------- createSignalAwareDelay
\* One cancellable wait: the timer it scheduled, whether its abort listener
\* is registered on the signal, how many listeners it added and removed, and
\* how many times its promise was resolved.
NoWait == [ms |-> 0, timer |-> "none", listener |-> FALSE, added |-> 0,
           removed |-> 0, resolves |-> 0]

DelayStart_listensFirst(ms, ab) ==
  IF ab THEN [ms |-> ms, timer |-> "none", listener |-> TRUE, added |-> 1,
              removed |-> 0, resolves |-> 1]
        ELSE [ms |-> ms, timer |-> "pending", listener |-> TRUE, added |-> 1,
              removed |-> 0, resolves |-> 0]

DelayStart_ignoresSignal(ms, ab) ==
  [ms |-> ms, timer |-> "pending", listener |-> TRUE, added |-> 1,
   removed |-> 0, resolves |-> 0]

\* createSignalAwareDelay up to the return of its promise.
DelayStart(ms, ab) ==
  IF ab THEN [ms |-> ms, timer |-> "none", listener |-> FALSE, added |-> 0,
              removed |-> 0, resolves |-> 1]
        ELSE [ms |-> ms, timer |-> "pending", listener |-> TRUE, added |-> 1,
              removed |-> 0, resolves |-> 0]

DelayOnTimer_keepsListener(w) ==
  [w EXCEPT !.timer = "fired", !.resolves = @ + 1]

DelayOnTimer_silent(w) ==
  [w EXCEPT !.timer = "fired", !.listener = FALSE, !.removed = @ + 1]

\* The setTimeout callback: cleanup(); resolve().
DelayOnTimer(w) ==
  [w EXCEPT !.timer = "fired", !.listener = FALSE, !.removed = @ + 1,
            !.resolves = @ + 1]

DelayOnAbort_deaf(w) == w

\* abortHandler, run when the signal fires while the listener is registered:
\* cleanup(); resolve().
DelayOnAbort(w) ==
  IF w.listener
    THEN [w EXCEPT !.timer = IF @ = "pending" THEN "cleared" ELSE @,
                   !.listener = FALSE, !.removed = @ + 1,
                   !.resolves = @ + 1]
    ELSE w

\* The earlier createSignalAwareDelay of src/service/monitor.ts: the timer
\* callback is resolve itself.
LegacyDelayOnTimer(w) ==
  [w EXCEPT !.timer = "fired", !.resolves = @ + 1]

\* The earlier abort listener: clearTimeout(timeoutId); resolve().
LegacyDelayOnAbort(w) ==
  IF w.listener
    THEN [w EXCEPT !.timer = IF @ = "pending" THEN "cleared" ELSE @,
                   !.resolves = @ + 1]
    ELSE w

DelayImpls == {"current", "legacy"}
OnTimer(i, w) == IF i = "legacy" THEN LegacyDelayOnTimer(w) ELSE DelayOnTimer(w)
OnAbort(i, w) == IF i = "legacy" THEN LegacyDelayOnAbort(w) ELSE DelayOnAbort(w)
DelayMs == PollIntervals \cup {LONG_POLL_INTERVAL_MS, POST_UPGRADE_WAIT_MS,
                               ERROR_RETRY_INTERVAL_MS}

Bump(n) == IF n < MaxCycles THEN n + 1 ELSE n

Count(s, x) == Cardinality({i \in 1..Len(s) : s[i] = x})
Has(s, x) == \E i \in 1..Len(s) : s[i] = x

VARIABLES
  chainIdentity,           \* MonitorState.chainIdentity
  upgradePlanBlockHeight,  \* MonitorState.upgradePlanBlockHeight
  isCosmosNodeDown,        \* MonitorState.isCosmosNodeDown
  pollIntervalMs,          \* config.pollIntervalMs
  aborted,                 \* signal.aborted
  pc,                      \* position of the single thread of control
  currentHeight,           \* monitorChain's local currentHeight
  ret,                     \* delay returned by the cycle that just ended
  calls,                   \* gateway calls of the current cycle, in order
  waits,                   \* ms of every deps.delay requested in this cycle
  logs,                    \* log events of the current cycle, in order
  atStart,                 \* MonitorState when the current cycle started
  idResp,                  \* <<r>>: ensureChainIdentity's fetch returned r
  heightResp,              \* <<r>>: this cycle's getBlockHeight returned r
  atCheck,                 \* <<s>>: MonitorState when readiness was compared
  atTrigger,               \* <<s>>: MonitorState when the trigger was invoked
  trigResult,              \* <<b>>: this cycle's trigger returned b
  refreshResp,             \* <<r>>: the post-upgrade identity fetch returned r
  prevHeightResp,          \* result of the latest liveness check of an earlier cycle
  lastTrigger,             \* <<[height, ok]>>: most recent trigger overall
  planFetchedSince,        \* a plan fetch returned a height since lastTrigger
  succeeded,               \* heights whose trigger returned success
  wait,                    \* the latest cancellable wait (NoWait before any)
  sleeps,                  \* ms of every scheduler sleep since the cycle began
  cycles,                  \* cycles started so far (stops counting at MaxCycles)
  nSleeps,                 \* scheduler sleeps requested so far (same cap)
  threw,                   \* the current cycle ended by throwing
  abortAt,                 \* <<[pc, cycles, nSleeps, pending]>> as the signal fired
  direct,                  \* the current cycle was called from outside the loop
  impl,                    \* which createSignalAwareDelay is under test
  dpc,                     \* position of the caller of the wait under test
  delays,                  \* calls of the wait under test so far
  listeners,               \* abort listeners now registered on the signal
  settled,                 \* <<[path, timer, listener]>> when the promise resolved
  running,                 \* cycles begun and not yet handed back to the scheduler
  scheduler,               \* "loop" (startMonitoring) or "recursive" (timer callbacks)
  timers,                  \* pending timers of the recursive scheduler
  topResolved,             \* the outermost recursive monitorChain call has returned
  gpc,                     \* position inside triggerGitlabUpdatePipeline
  triggerResp,             \* <<t>>: how the trigger request went
  posts,                   \* trigger requests sent
  statuses,                \* responses of the status fetches so far, in order
  pollSleeps,              \* ms of every sleep between status fetches
  finalStatus,             \* <<s>>: fetchGitlabPipelineStatus returned s
  pipelineResult,          \* <<b>>: triggerGitlabUpdatePipeline returned b
  cosmosPc,                \* position of the caller of the chain data gateway
  cosmosOp,                \* which gateway operation was called
  cosmosReply,             \* what the node answered to that call
  fetched,                 \* the Result fetchJson made of the answer
  cosmosRet,               \* <<v>>: the operation returned v (null is <<Null>>)
  ready,                   \* healthState.ready
  request,                 \* <<q>>: the latest request to the health server
  response,                \* <<status>>: the handler's answer to it
  env,                     \* the process environment, by Config key
  configCache,             \* config.ts's configCache
  configRet                \* <<r>>: how the latest loadConfig call ended

state == <<chainIdentity, upgradePlanBlockHeight, isCosmosNodeDown>>
cycleHist == <<calls, waits, logs, atStart, idResp, heightResp, atCheck,
               atTrigger, trigResult, refreshResp>>
runHist == <<prevHeightResp, lastTrigger, planFetchedSince, succeeded>>
schedHist == <<sleeps, cycles, nSleeps, threw, abortAt, direct, running>>
delayVars == <<impl, dpc, delays, listeners, settled>>
recVars == <<scheduler, timers, topResolved>>
gitlabVars == <<gpc, triggerResp, posts, statuses, pollSleeps, finalStatus,
                pipelineResult>>
cosmosVars == <<cosmosPc, cosmosOp, cosmosReply, fetched, cosmosRet>>
healthVars == <<ready, request, response>>
configVars == <<env, configCache, configRet>>
edgeVars == <<cosmosVars, healthVars, configVars>>
side == <<delayVars, recVars, gitlabVars, edgeVars>>
vars == <<state, pollIntervalMs, aborted, pc, currentHeight, ret,
          cycleHist, runHist, wait, schedHist, side>>

Snapshot == [id |-> chainIdentity, plan |-> upgradePlanBlockHeight,
             down |-> isCosmosNodeDown]

\* No wait is under test.
DelayIdle ==
  /\ impl = "current"
  /\ dpc = "idle"
  /\ delays = 0
  /\ listeners = 0
  /\ settled = <<>>

\* The monitor before its first cycle.
MonitorInit ==
  /\ chainIdentity = Null
  /\ upgradePlanBlockHeight = Null
  /\ isCosmosNodeDown = FALSE
  /\ pollIntervalMs \in PollIntervals
  /\ aborted = FALSE
  /\ currentHeight = Null
  /\ ret = Null
  /\ calls = <<>>
  /\ waits = <<>>
  /\ logs = <<>>
  /\ atStart = [id |-> Null, plan |-> Null, down |-> FALSE]
  /\ idResp = <<>>
  /\ heightResp = <<>>
  /\ atCheck = <<>>
  /\ atTrigger = <<>>
  /\ trigResult = <<>>
  /\ refreshResp = <<>>
  /\ prevHeightResp = <<>>
  /\ lastTrigger = <<>>
  /\ planFetchedSince = FALSE
  /\ succeeded = {}
  /\ wait = NoWait
  /\ sleeps = <<>>
  /\ cycles = 0
  /\ nSleeps = 0
  /\ threw = FALSE
  /\ abortAt = <<>>
  /\ direct = FALSE
  /\ running = 0

\* The loop scheduler is in use; the recursive one is not.
LoopScheduler ==
  /\ scheduler = "loop"
  /\ timers = 0
  /\ topResolved = FALSE

\* triggerGitlabUpdatePipeline has not been called.
GitlabIdle ==
  /\ gpc = "idle"
  /\ triggerResp = <<>>
  /\ posts = 0
  /\ statuses = <<>>
  /\ pollSleeps = <<>>
  /\ finalStatus = <<>>
  /\ pipelineResult = <<>>

\* No chain data operation has been called.
CosmosIdle ==
  /\ cosmosPc = "idle"
  /\ cosmosOp = "none"
  /\ cosmosReply = <<>>
  /\ fetched = <<>>
  /\ cosmosRet = <<>>

\* The health server has seen no request; healthState starts ready.
HealthIdle ==
  /\ ready = TRUE
  /\ request = <<>>
  /\ response = <<>>

\* Nothing is set in the environment and loadConfig was never called.
ConfigIdle ==
  /\ env = [k \in {"cosmosNodeRestUrl", "cicdTriggerToken",
                   "cicdPersonalAccessToken", "cicdUpdateBranch",
                   "cicdProjectApiUrl", "applicationPort",
                   "pollIntervalMs"} |-> <<>>]
  /\ configCache = <<>>
  /\ configRet = <<>>

EdgeIdle == CosmosIdle /\ HealthIdle /\ ConfigIdle

Init ==
  /\ MonitorInit
  /\ pc \in {"loop", "called"}
  /\ DelayIdle
  /\ LoopScheduler
  /\ GitlabIdle
  /\ EdgeIdle

\* ----------------------------------------------------------- scheduler loop
\* A call of monitorChain starts with nothing observed yet.
FreshCall ==
  /\ currentHeight' = Null
  /\ ret' = Null
  /\ calls' = <<>>
  /\ waits' = <<>>
  /\ logs' = <<>>
  /\ atStart' = Snapshot
  /\ idResp' = <<>>
  /\ heightResp' = <<>>
  /\ atCheck' = <<>>
  /\ atTrigger' = <<>>
  /\ trigResult' = <<>>
  /\ refreshResp' = <<>>
  /\ sleeps' = <<>>
  /\ threw' = FALSE
  /\ UNCHANGED <<state, pollIntervalMs, aborted, runHist, wait, nSleeps,
                 abortAt>>

\* monitorChain's entry past its abort check: the cycle begins.
BeginCycle ==
  /\ pc' = "ensureChainIdentity"
  /\ cycles' = Bump(cycles)
  /\ running' = running + 1
  /\ FreshCall

StartCycle_deaf ==
  /\ pc = "loop"
  /\ direct' = FALSE
  /\ BeginCycle
  /\ UNCHANGED side

\* startMonitoring: while (!signal.aborted) { monitorChain ... }; the cycle
\* begins (monitorChain's own abort check sees the same value).
StartCycle ==
  /\ pc = "loop"
  /\ ~aborted
  /\ direct' = FALSE
  /\ BeginCycle
  /\ UNCHANGED side

\* startMonitoring: the while condition fails, the loop returns.
LoopExit ==
  /\ pc = "loop"
  /\ aborted
  /\ pc' = "stopped"
  /\ UNCHANGED <<state, pollIntervalMs, aborted, currentHeight, ret,
                 cycleHist, runHist, wait, schedHist>>
  /\ UNCHANGED side

\* startMonitoring: the cycle returned a delay; deps.delay(delay, signal).
CycleReturns ==
  /\ pc = "return"
  /\ ~direct
  /\ scheduler = "loop"
  /\ running' = running - 1
  /\ pc' = "sleep"
  /\ prevHeightResp' = IF heightResp # <<>> THEN heightResp ELSE prevHeightResp
  /\ sleeps' = Append(sleeps, Val(ret))
  /\ nSleeps' = Bump(nSleeps)
  /\ wait' = DelayStart(Val(ret), aborted)
  /\ UNCHANGED <<state, pollIntervalMs, aborted, currentHeight, ret,
                 cycleHist, lastTrigger, planFetchedSince, succeeded,
                 cycles, threw, abortAt, direct>>
  /\ UNCHANGED side

\* The promise of the scheduler sleep is resolved; the loop continues.
SleepResolves ==
  /\ pc = "sleep"
  /\ wait.resolves > 0
  /\ pc' = "loop"
  /\ UNCHANGED <<state, pollIntervalMs, aborted, currentHeight, ret,
                 cycleHist, runHist, wait, schedHist>>
  /\ UNCHANGED side

\* The timer of the pending wait expires.
TimerFires ==
  /\ scheduler = "loop"
  /\ wait.timer = "pending"
  /\ wait' = DelayOnTimer(wait)
  /\ UNCHANGED <<state, pollIntervalMs, aborted, pc, currentHeight, ret,
                 cycleHist, runHist, schedHist>>
  /\ UNCHANGED side

\* Where control is when the signal fires: between cycles, at the first step
\* of a cycle, or further inside one.
AbortPoint ==
  IF pc \in {"loop", "sleep", "called", "main", "scheduled",
             "ensureChainIdentity"}
    THEN pc ELSE "midCycle"

\* The external cancellation signal fires; its abort listeners run.
Abort ==
  /\ scheduler = "loop"
  /\ ~aborted
  /\ aborted' = TRUE
  /\ wait' = DelayOnAbort(wait)
  /\ abortAt' = <<[pc |-> AbortPoint, cycles |-> cycles, nSleeps |-> nSleeps,
                   pending |-> wait.resolves = 0]>>
  /\ UNCHANGED <<state, pollIntervalMs, pc, currentHeight, ret,
                 cycleHist, runHist, sleeps, cycles, nSleeps, threw, direct,
                 running>>
  /\ UNCHANGED side

\* MonitorState.reset(), called between cycles.
Reset ==
  /\ pc \in {"loop", "sleep", "stopped", "called"}
  /\ chainIdentity' = Null
  /\ upgradePlanBlockHeight' = Null
  /\ isCosmosNodeDown' = FALSE
  /\ prevHeightResp' = <<>>
  /\ lastTrigger' = <<>>
  /\ planFetchedSince' = FALSE
  /\ succeeded' = {}
  /\ UNCHANGED <<pollIntervalMs, aborted, pc, currentHeight, ret, cycleHist,
                 wait, schedHist>>
  /\ UNCHANGED side

\* ------------------------------------------- monitorChain called directly
MonitorChainCall_deaf ==
  /\ pc = "called"
  /\ direct' = TRUE
  /\ BeginCycle
  /\ UNCHANGED side

\* A caller other than the loop calls monitorChain: null when the signal is
\* already aborted, one cycle otherwise.
MonitorChainCall ==
  /\ pc = "called"
  /\ direct' = TRUE
  /\ IF aborted
       THEN /\ pc' = "called"
            /\ FreshCall
            /\ UNCHANGED <<cycles, running>>
       ELSE BeginCycle
  /\ UNCHANGED side

\* The directly called cycle returns its delay to the caller.
MonitorChainReturns ==
  /\ pc = "return"
  /\ direct
  /\ pc' = "called"
  /\ prevHeightResp' = IF heightResp # <<>> THEN heightResp ELSE prevHeightResp
  /\ running' = running - 1
  /\ UNCHANGED <<state, pollIntervalMs, aborted, currentHeight, ret,
                 cycleHist, lastTrigger, planFetchedSince, succeeded, wait,
                 sleeps, cycles, nSleeps, threw, abortAt, direct>>
  /\ UNCHANGED side

\* ------------------------------------------------------------ cycle steps
\* ensureChainIdentity, and monitorChain's early return on null.
EnsureChainIdentity ==
  /\ pc = "ensureChainIdentity"
  /\ IF IdentityCached(chainIdentity)
       THEN /\ pc' = "checkNodeLiveness"
            /\ UNCHANGED <<chainIdentity, ret, calls, logs, idResp>>
       ELSE \E r \in OptIdentities :
            /\ calls' = Append(calls, "getChainIdentity")
            /\ idResp' = <<r>>
            /\ chainIdentity' = r
            /\ IF r = Null
                 THEN /\ logs' = Append(logs, "warnUnreachable")
                      /\ ret' = Some(LONG_POLL_INTERVAL_MS)
                      /\ pc' = "return"
                 ELSE /\ logs' = Append(logs, "identity")
                      /\ ret' = ret
                      /\ pc' = "checkNodeLiveness"
  /\ UNCHANGED <<upgradePlanBlockHeight, isCosmosNodeDown, pollIntervalMs,
                 aborted, currentHeight, waits, atStart, heightResp, atCheck,
                 atTrigger, trigResult, refreshResp, runHist, wait,
                 schedHist>>
  /\ UNCHANGED side

\* checkNodeLiveness, and monitorChain's early return on shouldWait.
CheckNodeLiveness ==
  /\ pc = "checkNodeLiveness"
  /\ \E r \in OptHeights :
       /\ calls' = Append(calls, "getBlockHeight")
       /\ heightResp' = <<r>>
       /\ IF ShouldWait(r)
            THEN /\ isCosmosNodeDown' = (IF ~isCosmosNodeDown THEN TRUE
                                                            ELSE isCosmosNodeDown)
                 /\ logs' = Append(logs, "waiting")
                 /\ currentHeight' = Null
                 /\ ret' = Some(LONG_POLL_INTERVAL_MS)
                 /\ pc' = "return"
            ELSE /\ isCosmosNodeDown' = (IF isCosmosNodeDown THEN FALSE
                                                           ELSE isCosmosNodeDown)
                 /\ logs' = IF isCosmosNodeDown
                              THEN logs \o <<"backOnline", "identity">>
                              ELSE logs
                 /\ currentHeight' = r
                 /\ ret' = ret
                 /\ pc' = "detectUpgradePlan"
  /\ UNCHANGED <<chainIdentity, upgradePlanBlockHeight, pollIntervalMs,
                 aborted, waits, atStart, idResp, atCheck, atTrigger,
                 trigResult, refreshResp, runHist, wait, schedHist>>
  /\ UNCHANGED side

\* detectUpgradePlan.
DetectUpgradePlan ==
  /\ pc = "detectUpgradePlan"
  /\ IF PlanCached(upgradePlanBlockHeight)
       THEN UNCHANGED <<upgradePlanBlockHeight, calls, logs, planFetchedSince>>
       ELSE \E r \in OptHeights :
            /\ calls' = Append(calls, "getUpgradePlan")
            /\ upgradePlanBlockHeight' = r
            /\ logs' = IF r # Null THEN Append(logs, "planDetected") ELSE logs
            /\ planFetchedSince' = (planFetchedSince \/ r # Null)
  /\ pc' = "handleUpgradeExecution"
  /\ UNCHANGED <<chainIdentity, isCosmosNodeDown, pollIntervalMs, aborted,
                 currentHeight, ret, waits, atStart, idResp, heightResp,
                 atCheck, atTrigger, trigResult, refreshResp, prevHeightResp,
                 lastTrigger, succeeded, wait, schedHist>>
  /\ UNCHANGED side

\* monitorChain's no-plan return, then handleUpgradeExecution up to the
\* call of deps.triggerUpdatePipeline.
HandleUpgradeExecution ==
  /\ pc = "handleUpgradeExecution"
  /\ atCheck' = <<Snapshot>>
  /\ IF NoPlan(upgradePlanBlockHeight)
          \/ NotDue(upgradePlanBlockHeight, currentHeight)
       THEN /\ ret' = Some(pollIntervalMs)
            /\ pc' = "return"
            /\ UNCHANGED <<calls, atTrigger>>
       ELSE /\ calls' = Append(calls, "triggerUpdatePipeline")
            /\ atTrigger' = <<Snapshot>>
            /\ ret' = ret
            /\ pc' = "triggerUpdatePipeline"
  /\ UNCHANGED <<state, pollIntervalMs, aborted, currentHeight, waits, logs,
                 atStart, idResp, heightResp, trigResult, refreshResp,
                 runHist, wait, schedHist>>
  /\ UNCHANGED side

TriggerReturns_noQuietOnFailure ==
  /\ pc = "triggerUpdatePipeline"
  /\ \E ok \in BOOLEAN :
       /\ trigResult' = <<ok>>
       /\ lastTrigger' = <<[height |-> Val(upgradePlanBlockHeight), ok |-> ok]>>
       /\ planFetchedSince' = FALSE
       /\ succeeded' = IF ok THEN succeeded \cup {Val(upgradePlanBlockHeight)}
                             ELSE succeeded
       /\ logs' = Append(logs, IF ok THEN "pipelineOk" ELSE "critical")
       /\ upgradePlanBlockHeight' =
            IF ok THEN PlanAfterSuccess(upgradePlanBlockHeight)
                  ELSE PlanAfterFailure(upgradePlanBlockHeight)
       /\ IF ok
            THEN /\ calls' = Append(calls, "delay")
                 /\ waits' = Append(waits, POST_UPGRADE_WAIT_MS)
                 /\ wait' = DelayStart(POST_UPGRADE_WAIT_MS, aborted)
                 /\ pc' = "quietAfterSuccess"
                 /\ ret' = ret
            ELSE /\ UNCHANGED <<calls, waits, wait>>
                 /\ pc' = "return"
                 /\ ret' = Some(pollIntervalMs)
  /\ UNCHANGED <<chainIdentity, isCosmosNodeDown, pollIntervalMs, aborted,
                 currentHeight, atStart, idResp, heightResp, atCheck,
                 atTrigger, refreshResp, prevHeightResp, schedHist>>
  /\ UNCHANGED side

\* handleUpgradeExecution: the trigger returned; either branch up to its
\* await of deps.delay(POST_UPGRADE_WAIT_MS, signal).
TriggerReturns ==
  /\ pc = "triggerUpdatePipeline"
  /\ \E ok \in BOOLEAN :
       /\ trigResult' = <<ok>>
       /\ lastTrigger' = <<[height |-> Val(upgradePlanBlockHeight), ok |-> ok]>>
       /\ planFetchedSince' = FALSE
       /\ succeeded' = IF ok THEN succeeded \cup {Val(upgradePlanBlockHeight)}
                             ELSE succeeded
       /\ logs' = Append(logs, IF ok THEN "pipelineOk" ELSE "critical")
       /\ upgradePlanBlockHeight' =
            IF ok THEN PlanAfterSuccess(upgradePlanBlockHeight)
                  ELSE PlanAfterFailure(upgradePlanBlockHeight)
       /\ calls' = Append(calls, "delay")
       /\ waits' = Append(waits, POST_UPGRADE_WAIT_MS)
       /\ wait' = DelayStart(POST_UPGRADE_WAIT_MS, aborted)
       /\ pc' = IF ok THEN "quietAfterSuccess" ELSE "quietAfterFailure"
  /\ UNCHANGED <<chainIdentity, isCosmosNodeDown, pollIntervalMs, aborted,
                 currentHeight, ret, atStart, idResp, heightResp, atCheck,
                 atTrigger, refreshResp, prevHeightResp, schedHist>>
  /\ UNCHANGED side

\* handleUpgradeExecution: the promise of the quiet-period wait is resolved.
QuietWaitResolves ==
  /\ pc \in {"quietAfterSuccess", "quietAfterFailure"}
  /\ wait.resolves > 0
  /\ calls' = Append(calls, "delayResolved")
  /\ IF pc = "quietAfterSuccess"
       THEN /\ logs' = Append(logs, "upgradeCompleted")
            /\ ret' = ret
            /\ pc' = "refreshIdentity"
       ELSE /\ logs' = logs
            /\ ret' = Some(pollIntervalMs)
            /\ pc' = "return"
  /\ UNCHANGED <<state, pollIntervalMs, aborted, currentHeight, waits,
                 atStart, idResp, heightResp, atCheck, atTrigger, trigResult,
                 refreshResp, runHist, wait, schedHist>>
  /\ UNCHANGED side

\* handleUpgradeExecution: the post-upgrade identity refresh.
RefreshIdentity ==
  /\ pc = "refreshIdentity"
  /\ \E r \in OptIdentities :
       /\ calls' = Append(calls, "getChainIdentity")
       /\ refreshResp' = <<r>>
       /\ chainIdentity' = IdentityAfterRefresh(chainIdentity, r)
  /\ ret' = Some(pollIntervalMs)
  /\ pc' = "return"
  /\ UNCHANGED <<upgradePlanBlockHeight, isCosmosNodeDown, pollIntervalMs,
                 aborted, currentHeight, waits, logs, atStart, idResp,
                 heightResp, atCheck, atTrigger, trigResult, runHist, wait,
                 schedHist>>
  /\ UNCHANGED side

Next ==
  \/ StartCycle
  \/ LoopExit
  \/ CycleReturns
  \/ SleepResolves
  \/ TimerFires
  \/ Abort
  \/ Reset
  \/ MonitorChainCall
  \/ MonitorChainReturns
  \/ EnsureChainIdentity
  \/ CheckNodeLiveness
  \/ DetectUpgradePlan
  \/ HandleUpgradeExecution
  \/ TriggerReturns
  \/ QuietWaitResolves
  \/ RefreshIdentity

Spec == Init /\ [][Next]_vars

\* ------------------------------------------------------- throwing gateways
\* The gateway call the cycle is about to make, if any.
PendingCall ==
  CASE pc = "ensureChainIdentity" /\ ~IdentityCached(chainIdentity)
         -> <<"getChainIdentity">>
    [] pc = "checkNodeLiveness" -> <<"getBlockHeight">>
    [] pc = "detectUpgradePlan" /\ ~PlanCached(upgradePlanBlockHeight)
         -> <<"getUpgradePlan">>
    [] pc = "refreshIdentity" -> <<"getChainIdentity">>
    [] OTHER -> <<>>

GatewayThrows_rollsBack ==
  /\ \/ /\ PendingCall # <<>>
        /\ calls' = calls \o PendingCall
     \/ /\ pc = "triggerUpdatePipeline"
        /\ calls' = calls
  /\ threw' = TRUE
  /\ pc' = "threw"
  /\ chainIdentity' = atStart.id
  /\ upgradePlanBlockHeight' = atStart.plan
  /\ isCosmosNodeDown' = atStart.down
  /\ UNCHANGED <<pollIntervalMs, aborted, currentHeight, ret, waits,
                 logs, atStart, idResp, heightResp, atCheck, atTrigger,
                 trigResult, refreshResp, runHist, wait, sleeps, cycles,
                 nSleeps, abortAt, direct, running>>
  /\ UNCHANGED side

\* A gateway call rejects: no step of monitorChain catches, so the
\* exception leaves the cycle with the monitor state as the steps left it.
GatewayThrows ==
  /\ \/ /\ PendingCall # <<>>
        /\ calls' = calls \o PendingCall
     \/ /\ pc = "triggerUpdatePipeline"
        /\ calls' = calls
  /\ threw' = TRUE
  /\ pc' = "threw"
  /\ UNCHANGED <<state, pollIntervalMs, aborted, currentHeight, ret, waits,
                 logs, atStart, idResp, heightResp, atCheck, atTrigger,
                 trigResult, refreshResp, runHist, wait, sleeps, cycles,
                 nSleeps, abortAt, direct, running>>
  /\ UNCHANGED side

LoopCatches_backoff ==
  /\ pc = "threw"
  /\ ~direct
  /\ scheduler = "loop"
  /\ running' = running - 1
  /\ pc' = "sleep"
  /\ prevHeightResp' = IF heightResp # <<>> THEN heightResp ELSE prevHeightResp
  /\ LET ms == IF wait.ms = ERROR_RETRY_INTERVAL_MS
                 THEN 2 * ERROR_RETRY_INTERVAL_MS
                 ELSE ERROR_RETRY_INTERVAL_MS
     IN /\ sleeps' = Append(sleeps, ms)
        /\ wait' = DelayStart(ms, aborted)
  /\ nSleeps' = Bump(nSleeps)
  /\ UNCHANGED <<state, pollIntervalMs, aborted, currentHeight, ret,
                 cycleHist, lastTrigger, planFetchedSince, succeeded,
                 cycles, threw, abortAt, direct>>
  /\ UNCHANGED side

LoopCatches_rethrows ==
  /\ pc = "threw"
  /\ ~direct
  /\ scheduler = "loop"
  /\ pc' = "stopped"
  /\ UNCHANGED <<state, pollIntervalMs, aborted, currentHeight, ret,
                 cycleHist, runHist, wait, schedHist>>
  /\ UNCHANGED side

\* startMonitoring's catch: deps.delay(ERROR_RETRY_INTERVAL_MS, signal).
LoopCatches ==
  /\ pc = "threw"
  /\ ~direct
  /\ scheduler = "loop"
  /\ running' = running - 1
  /\ pc' = "sleep"
  /\ prevHeightResp' = IF heightResp # <<>> THEN heightResp ELSE prevHeightResp
  /\ sleeps' = Append(sleeps, ERROR_RETRY_INTERVAL_MS)
  /\ nSleeps' = Bump(nSleeps)
  /\ wait' = DelayStart(ERROR_RETRY_INTERVAL_MS, aborted)
  /\ UNCHANGED <<state, pollIntervalMs, aborted, currentHeight, ret,
                 cycleHist, lastTrigger, planFetchedSince, succeeded,
                 cycles, threw, abortAt, direct>>
  /\ UNCHANGED side

\* The directly called cycle rejects to its caller.
MonitorChainThrows ==
  /\ pc = "threw"
  /\ direct
  /\ pc' = "called"
  /\ prevHeightResp' = IF heightResp # <<>> THEN heightResp ELSE prevHeightResp
  /\ running' = running - 1
  /\ UNCHANGED <<state, pollIntervalMs, aborted, currentHeight, ret,
                 cycleHist, lastTrigger, planFetchedSince, succeeded, wait,
                 sleeps, cycles, nSleeps, threw, abortAt, direct>>
  /\ UNCHANGED side

NextFault ==
  \/ StartCycle
  \/ LoopExit
  \/ CycleReturns
  \/ SleepResolves
  \/ TimerFires
  \/ Abort
  \/ Reset
  \/ MonitorChainCall
  \/ MonitorChainReturns
  \/ EnsureChainIdentity
  \/ CheckNodeLiveness
  \/ DetectUpgradePlan
  \/ HandleUpgradeExecution
  \/ TriggerReturns
  \/ QuietWaitResolves
  \/ RefreshIdentity
  \/ GatewayThrows
  \/ LoopCatches
  \/ MonitorChainThrows

SpecFault == Init /\ [][NextFault]_vars

\* Every step of the program itself: all of NextFault but the signal firing
\* and the calls made from outside the loop.
Progress ==
  \/ StartCycle
  \/ LoopExit
  \/ CycleReturns
  \/ SleepResolves
  \/ TimerFires
  \/ EnsureChainIdentity
  \/ CheckNodeLiveness
  \/ DetectUpgradePlan
  \/ HandleUpgradeExecution
  \/ TriggerReturns
  \/ QuietWaitResolves
  \/ RefreshIdentity
  \/ GatewayThrows
  \/ LoopCatches

\* The event loop runs every continuation that is ready and every timer
\* expires; each awaited gateway call settles.
SpecLive == Init /\ [][NextFault]_vars /\ WF_vars(Progress)

\* ------------------------------------------------- the recursive scheduler
\* The earlier monitorChain of src/service/monitor.ts: each cycle ends by
\* awaiting scheduleNextMonitor(delay), whose timer callback runs the next
\* cycle nested inside that await.  The cycle steps are the ones above.

\* main calls monitorChain.
RecursiveCall ==
  /\ scheduler = "recursive"
  /\ pc = "main"
  /\ direct' = FALSE
  /\ IF aborted
       THEN /\ pc' = "stopped"
            /\ topResolved' = TRUE
            /\ FreshCall
            /\ UNCHANGED <<cycles, running>>
       ELSE /\ BeginCycle
            /\ UNCHANGED topResolved
  /\ UNCHANGED <<delayVars, gitlabVars, edgeVars, scheduler, timers>>

ScheduleNextMonitor_longRetry ==
  /\ scheduler = "recursive"
  /\ pc \in {"return", "threw"}
  /\ sleeps' = Append(sleeps, IF pc = "threw" THEN LONG_POLL_INTERVAL_MS
                                              ELSE Val(ret))
  /\ nSleeps' = Bump(nSleeps)
  /\ running' = running - 1
  /\ prevHeightResp' = IF heightResp # <<>> THEN heightResp ELSE prevHeightResp
  /\ IF aborted
       THEN /\ pc' = "stopped"
            /\ topResolved' = TRUE
            /\ UNCHANGED timers
       ELSE /\ pc' = "scheduled"
            /\ timers' = timers + 1
            /\ UNCHANGED topResolved
  /\ UNCHANGED <<state, pollIntervalMs, aborted, currentHeight, ret,
                 cycleHist, lastTrigger, planFetchedSince, succeeded, wait,
                 cycles, threw, abortAt, direct, delayVars, gitlabVars, edgeVars,
                 scheduler>>

ScheduleNextMonitor_twice ==
  /\ scheduler = "recursive"
  /\ pc \in {"return", "threw"}
  /\ sleeps' = Append(sleeps, IF pc = "threw" THEN ERROR_RETRY_INTERVAL_MS
                                              ELSE Val(ret))
  /\ nSleeps' = Bump(nSleeps)
  /\ running' = running - 1
  /\ prevHeightResp' = IF heightResp # <<>> THEN heightResp ELSE prevHeightResp
  /\ pc' = "scheduled"
  /\ timers' = timers + 2
  /\ UNCHANGED <<state, pollIntervalMs, aborted, currentHeight, ret,
                 cycleHist, lastTrigger, planFetchedSince, succeeded, wait,
                 cycles, threw, abortAt, direct, delayVars, gitlabVars, edgeVars,
                 scheduler, topResolved>>

\* The cycle is over (its delay, or ERROR_RETRY_INTERVAL_MS from the catch):
\* scheduleNextMonitor resolves at once when aborted, which unwinds every
\* enclosing call, and otherwise arms one timer.
ScheduleNextMonitor ==
  /\ scheduler = "recursive"
  /\ pc \in {"return", "threw"}
  /\ sleeps' = Append(sleeps, IF pc = "threw" THEN ERROR_RETRY_INTERVAL_MS
                                              ELSE Val(ret))
  /\ nSleeps' = Bump(nSleeps)
  /\ running' = running - 1
  /\ prevHeightResp' = IF heightResp # <<>> THEN heightResp ELSE prevHeightResp
  /\ IF aborted
       THEN /\ pc' = "stopped"
            /\ topResolved' = TRUE
            /\ UNCHANGED timers
       ELSE /\ pc' = "scheduled"
            /\ timers' = timers + 1
            /\ UNCHANGED topResolved
  /\ UNCHANGED <<state, pollIntervalMs, aborted, currentHeight, ret,
                 cycleHist, lastTrigger, planFetchedSince, succeeded, wait,
                 cycles, threw, abortAt, direct, delayVars, gitlabVars, edgeVars,
                 scheduler>>

\* A scheduler timer expires: executeMonitoringCycle runs monitorChain
\* unless the signal is aborted.
ExecuteMonitoringCycle ==
  /\ scheduler = "recursive"
  /\ timers > 0
  /\ timers' = timers - 1
  /\ direct' = FALSE
  /\ IF aborted
       THEN /\ pc' = "stopped"
            /\ topResolved' = TRUE
            /\ FreshCall
            /\ UNCHANGED <<cycles, running>>
       ELSE /\ BeginCycle
            /\ UNCHANGED topResolved
  /\ UNCHANGED <<delayVars, gitlabVars, edgeVars, scheduler>>

\* The timer of the quiet-period wait expires (earlier createSignalAwareDelay).
RecursiveQuietTimerFires ==
  /\ scheduler = "recursive"
  /\ wait.timer = "pending"
  /\ wait' = LegacyDelayOnTimer(wait)
  /\ UNCHANGED <<state, pollIntervalMs, aborted, pc, currentHeight, ret,
                 cycleHist, runHist, schedHist, side>>

\* The signal fires: every abortListener registered by scheduleNextMonitor
\* runs cleanup() and resolve(), so the pending timer is cleared and every
\* enclosing monitorChain call returns; a cycle in flight goes on.
RecursiveAbort ==
  /\ scheduler = "recursive"
  /\ ~aborted
  /\ aborted' = TRUE
  /\ wait' = LegacyDelayOnAbort(wait)
  /\ abortAt' = <<[pc |-> AbortPoint, cycles |-> cycles, nSleeps |-> nSleeps,
                   pending |-> wait.resolves = 0]>>
  /\ timers' = 0
  /\ topResolved' = (topResolved \/ nSleeps > 0)
  /\ pc' = IF pc = "scheduled" THEN "stopped" ELSE pc
  /\ UNCHANGED <<state, pollIntervalMs, currentHeight, ret, cycleHist,
                 runHist, sleeps, cycles, nSleeps, threw, direct, running,
                 delayVars, gitlabVars, edgeVars, scheduler>>

InitSched ==
  /\ MonitorInit
  /\ DelayIdle
  /\ GitlabIdle
  /\ EdgeIdle
  /\ scheduler \in {"loop", "recursive"}
  /\ pc = (IF scheduler = "loop" THEN "loop" ELSE "main")
  /\ timers = 0
  /\ topResolved = FALSE

NextSched ==
  \/ StartCycle
  \/ LoopExit
  \/ CycleReturns
  \/ SleepResolves
  \/ TimerFires
  \/ Abort
  \/ Reset
  \/ EnsureChainIdentity
  \/ CheckNodeLiveness
  \/ DetectUpgradePlan
  \/ HandleUpgradeExecution
  \/ TriggerReturns
  \/ QuietWaitResolves
  \/ RefreshIdentity
  \/ GatewayThrows
  \/ LoopCatches
  \/ RecursiveCall
  \/ ScheduleNextMonitor
  \/ ExecuteMonitoringCycle
  \/ RecursiveQuietTimerFires
  \/ RecursiveAbort

\* Either scheduler drives the same cycle.
SpecSched == InitSched /\ [][NextSched]_vars

\* ------------------------------------------- the cancellable wait by itself
\* createSignalAwareDelay called on its own, as its unit tests do, in either
\* of its two implementations; the monitor does not run.
monitorRest == <<state, pollIntervalMs, pc, currentHeight, ret, cycleHist,
                 runHist, schedHist>>

Settle(path, w) == <<[path |-> path, timer |-> w.timer, listener |-> w.listener]>>

InitDelay ==
  /\ MonitorInit
  /\ pc = "loop"
  /\ LoopScheduler
  /\ GitlabIdle
  /\ EdgeIdle
  /\ impl \in DelayImpls
  /\ dpc = "idle"
  /\ delays = 0
  /\ listeners = 0
  /\ settled = <<>>

\* createSignalAwareDelay(ms, signal) is called and returns its promise.
DelayCalled ==
  /\ dpc = "idle"
  /\ delays < MaxDelays
  /\ \E ms \in DelayMs :
       /\ wait' = DelayStart(ms, aborted)
       /\ listeners' = listeners + wait'.added
       /\ settled' = IF wait'.resolves > 0 THEN Settle("immediate", wait')
                                           ELSE <<>>
  /\ delays' = delays + 1
  /\ dpc' = "waiting"
  /\ UNCHANGED <<monitorRest, recVars, gitlabVars, edgeVars, aborted, impl>>

\* The timer of the wait expires.
DelayTimerFires ==
  /\ dpc = "waiting"
  /\ wait.timer = "pending"
  /\ wait' = OnTimer(impl, wait)
  /\ listeners' = listeners - (wait'.removed - wait.removed)
  /\ settled' = IF settled = <<>> /\ wait'.resolves > 0
                  THEN Settle("timer", wait') ELSE settled
  /\ UNCHANGED <<monitorRest, recVars, gitlabVars, edgeVars, aborted, impl, dpc, delays>>

\* The signal fires; the abort listener of the wait runs if registered.
DelayAborted ==
  /\ ~aborted
  /\ aborted' = TRUE
  /\ wait' = OnAbort(impl, wait)
  /\ listeners' = listeners - (wait'.removed - wait.removed)
  /\ settled' = IF settled = <<>> /\ wait'.resolves > 0
                  THEN Settle("abort", wait') ELSE settled
  /\ UNCHANGED <<monitorRest, recVars, gitlabVars, edgeVars, impl, dpc, delays>>

\* The caller's await of the promise continues.
DelayAwaited ==
  /\ dpc = "waiting"
  /\ wait.resolves > 0
  /\ dpc' = "idle"
  /\ UNCHANGED <<monitorRest, recVars, gitlabVars, edgeVars, aborted, wait, impl,
                 delays, listeners, settled>>

NextDelay ==
  \/ DelayCalled
  \/ DelayTimerFires
  \/ DelayAborted
  \/ DelayAwaited

SpecDelay == InitDelay /\ [][NextDelay]_vars

\* ------------------------------------------------------ pipeline gateway
\* triggerGitlabUpdatePipeline and fetchGitlabPipelineStatus of
\* src/service/gitlab.ts by themselves; GitLab's answers are the environment.
notGitlab == <<state, pollIntervalMs, aborted, pc, currentHeight, ret,
               cycleHist, runHist, wait, schedHist, delayVars, recVars,
               edgeVars>>

\* How the trigger request can go: the body cannot be built, fetch throws,
\* the response is not OK, its JSON does not parse, parses to null, parses
\* to an object without an id, or parses to a pipeline.
TriggerResponses == {"badVariables", "fetchThrows", "notOk", "badJson",
                     "nullJson", "noId", "pipeline"}
RequestSent_always(t) == TRUE

RequestSent(t) == t # "badVariables"
ResponseOk(t) == t \in {"badJson", "nullJson", "noId", "pipeline"}

\* triggerGitlabUpdatePipeline: if (!pipeline) return false
PipelineParsed(t) == t \in {"noId", "pipeline"}

\* What a status fetch can bring: a failure of fetchJson (an exception
\* inside fetchGitlabPipelineStatus ends in its catch with the same
\* "failed"), or JSON whose status field is missing or is some string.
StatusStrings ==
  TERMINAL_STATUSES \cup NON_TERMINAL_STATUSES \cup {"", "preparing"}
StatusResponses ==
  {[ok |-> FALSE, status |-> Null]}
    \cup {[ok |-> TRUE, status |-> st] :
            st \in {Null} \cup {Some(x) : x \in StatusStrings}}

checkPipelineStatus_lenient(r) ==
  IF r.status = Null THEN Some("pending") ELSE r.status

\* checkPipelineStatus: null on a failed fetch and on a falsy status.
checkPipelineStatus(r) ==
  IF ~r.ok THEN Null
  ELSE IF r.status = Null \/ Val(r.status) = "" THEN Null
  ELSE r.status

classifyPipelineStatus_unknownEnds(status) ==
  IF status \in NON_TERMINAL_STATUSES THEN "NON_TERMINAL" ELSE "TERMINAL"

classifyPipelineStatus(status) ==
  IF status \in TERMINAL_STATUSES THEN "TERMINAL"
  ELSE IF status \in NON_TERMINAL_STATUSES THEN "NON_TERMINAL"
  ELSE "UNKNOWN"

PipelineSucceeded_notFailed(final) == final # "failed"

\* triggerGitlabUpdatePipeline: finalStatus === "success"
PipelineSucceeded(final) == final = "success"

InitGitlab ==
  /\ MonitorInit
  /\ pc = "loop"
  /\ DelayIdle
  /\ LoopScheduler
  /\ GitlabIdle
  /\ EdgeIdle

\* triggerGitlabUpdatePipeline up to its call of fetchGitlabPipelineStatus,
\* or to its return of false.
TriggerPipeline ==
  /\ gpc = "idle"
  /\ \E t \in TriggerResponses :
       /\ triggerResp' = <<t>>
       /\ posts' = IF RequestSent(t) THEN posts + 1 ELSE posts
       /\ IF ResponseOk(t) /\ PipelineParsed(t)
            THEN /\ gpc' = "poll"
                 /\ pipelineResult' = pipelineResult
            ELSE /\ gpc' = "done"
                 /\ pipelineResult' = <<FALSE>>
  /\ UNCHANGED <<notGitlab, statuses, pollSleeps, finalStatus>>

\* fetchGitlabPipelineStatus: one status fetch and what follows from it.
FetchStatus ==
  /\ gpc = "poll"
  /\ Len(statuses) < MaxPolls
  /\ \E r \in StatusResponses :
       /\ statuses' = Append(statuses, r)
       /\ LET status == checkPipelineStatus(r) IN
          IF status = Null
            THEN /\ finalStatus' = <<"failed">>
                 /\ gpc' = "polled"
                 /\ UNCHANGED pollSleeps
            ELSE IF classifyPipelineStatus(Val(status)) = "TERMINAL"
              THEN /\ finalStatus' = status
                   /\ gpc' = "polled"
                   /\ UNCHANGED pollSleeps
              ELSE /\ pollSleeps' = Append(pollSleeps, POLL_INTERVAL_MS)
                   /\ gpc' = "pollSleep"
                   /\ UNCHANGED finalStatus
  /\ UNCHANGED <<notGitlab, triggerResp, posts, pipelineResult>>

\* fetchGitlabPipelineStatus: the timer between two fetches expires.
PollSleepOver ==
  /\ gpc = "pollSleep"
  /\ gpc' = "poll"
  /\ UNCHANGED <<notGitlab, triggerResp, posts, statuses, pollSleeps,
                 finalStatus, pipelineResult>>

\* triggerGitlabUpdatePipeline: polling returned finalStatus.
PipelineReturns ==
  /\ gpc = "polled"
  /\ pipelineResult' = <<PipelineSucceeded(Val(finalStatus))>>
  /\ gpc' = "done"
  /\ UNCHANGED <<notGitlab, triggerResp, posts, statuses, pollSleeps,
                 finalStatus>>

NextGitlab ==
  \/ TriggerPipeline
  \/ FetchStatus
  \/ PollSleepOver
  \/ PipelineReturns

SpecGitlab == InitGitlab /\ [][NextGitlab]_vars

\* ------------------------------------------------------ chain data gateway
\* getBlockHeight, getUpgradePlanBlockHeight and getChainIdentity with
\* fetchJson and safeGet of src/utils/http.ts; the node's answers are the
\* environment.  Text that gets parsed is a sequence of characters.
notCosmos == <<state, pollIntervalMs, aborted, pc, currentHeight, ret,
               cycleHist, runHist, wait, schedHist, delayVars, recVars,
               gitlabVars, healthVars, configVars>>

Digits == {"0", "1", "2", "8"}
Chars == Digits \cup {" ", "-", "x"}
Texts == UNION {[1..n -> Chars] : n \in 0..MaxLen}
DigitValue(c) ==
  CASE c = "0" -> 0 [] c = "1" -> 1 [] c = "2" -> 2 [] c = "8" -> 8
DigitChar(n) == CASE n = 0 -> "0" [] n = 1 -> "1" [] n = 2 -> "2"

\* What safeGet finds at the end of the height path: nothing (a missing
\* key, null, or a parent that is no object), a string, a number, or an
\* object.
JsonAbsent == [t |-> "absent", s |-> <<>>, n |-> 0]
JsonStr(s) == [t |-> "string", s |-> s, n |-> 0]
JsonNum(n) == [t |-> "number", s |-> <<>>, n |-> n]
JsonObj == [t |-> "object", s |-> <<>>, n |-> 0]
Leaves == {JsonAbsent, JsonObj} \cup {JsonStr(s) : s \in Texts}
            \cup {JsonNum(n) : n \in 0..2}

\* safeGet: undefined and null both come back as null.
safeGet(v) == IF v.t = "absent" THEN Null ELSE Some(v)

\* JavaScript's !v for such a value: the empty string and 0 are falsy.
FalsyJson(v) ==
  \/ v.t = "absent"
  \/ v.t = "string" /\ v.s = <<>>
  \/ v.t = "number" /\ v.n = 0

\* JsToString as parseInt applies it; an object gives "[object Object]",
\* which starts with a character that is no digit.
JsToString(v) ==
  CASE v.t = "string" -> v.s
    [] v.t = "number" -> <<DigitChar(v.n)>>
    [] OTHER -> <<"x">>

RECURSIVE SkipSpaces(_)
SkipSpaces(s) ==
  IF s # <<>> /\ Head(s) = " " THEN SkipSpaces(Tail(s)) ELSE s

RECURSIVE DigitPrefix(_)
DigitPrefix(s) ==
  IF s # <<>> /\ Head(s) \in Digits
    THEN <<Head(s)>> \o DigitPrefix(Tail(s))
    ELSE <<>>

RECURSIVE Decimal(_)
Decimal(d) ==
  IF d = <<>> THEN 0
  ELSE 10 * Decimal(SubSeq(d, 1, Len(d) - 1)) + DigitValue(d[Len(d)])

\* parseInt(s, 10) followed by isNaN(height) ? null : height: leading
\* white space is skipped, a sign is read, then the longest run of digits;
\* no digit gives NaN, hence null.
parseInt(s) ==
  LET t == SkipSpaces(s)
      neg == t # <<>> /\ Head(t) = "-"
      d == DigitPrefix(IF neg THEN Tail(t) ELSE t)
  IN IF d = <<>> THEN Null
     ELSE Some(IF neg THEN 0 - Decimal(d) ELSE Decimal(d))

\* A field of default_node_info: missing, empty, or a text (the field's
\* own name stands for it).
FieldVals(name) == {Null, Some(""), Some(name)}

\* The "other" member of default_node_info.
NoOther == [t |-> "absent", rpc_address |-> Null]
Others ==
  {NoOther, [t |-> "string", rpc_address |-> Null]}
    \cup {[t |-> "object", rpc_address |-> a] : a \in FieldVals("rpc")}

\* default_node_info: missing, a value that is no object, or an object.
NoNodeInfo ==
  [t |-> "absent", default_node_id |-> Null, listen_addr |-> Null,
   network |-> Null, version |-> Null, moniker |-> Null, other |-> NoOther]
NodeInfos ==
  {NoNodeInfo, [NoNodeInfo EXCEPT !.t = "string"]}
    \cup [t : {"object"},
          default_node_id : FieldVals("id"),
          listen_addr : FieldVals("addr"),
          network : FieldVals("net"),
          version : FieldVals("ver"),
          moniker : FieldVals("mon"),
          other : Others]

CosmosOps == {"getBlockHeight", "getUpgradePlanBlockHeight",
              "getChainIdentity"}

\* How a request can go: fetch rejects, the status is not OK, the body is
\* not JSON, or the body is JSON.
Transports == {"networkError", "httpError", "badJson", "json"}
NoBody == [leaf |-> JsonAbsent, nodeInfo |-> NoNodeInfo]
Bodies(op) ==
  IF op = "getChainIdentity"
    THEN {[leaf |-> JsonAbsent, nodeInfo |-> i] : i \in NodeInfos}
    ELSE {[leaf |-> l, nodeInfo |-> NoNodeInfo] : l \in Leaves}
Replies(op) ==
  {[transport |-> t, body |-> NoBody] :
     t \in Transports \ {"json"}}
    \cup {[transport |-> "json", body |-> b] : b \in Bodies(op)}

fetchJson_noCatch(reply) ==
  IF reply.transport = "json"
    THEN [kind |-> "success", data |-> reply.body]
    ELSE IF reply.transport = "httpError"
      THEN [kind |-> "failure", data |-> NoBody]
      ELSE [kind |-> "throws", data |-> NoBody]

\* fetchJson: a Result; the rejection of fetch and the exception of
\* response.json() both end in the catch clause.
fetchJson(reply) ==
  IF reply.transport = "json"
    THEN [kind |-> "success", data |-> reply.body]
    ELSE [kind |-> "failure", data |-> NoBody]

isFailure(result) == result.kind = "failure"

getBlockHeight(result) ==
  IF isFailure(result) THEN Null
  ELSE LET heightStr == result.data.leaf IN
       IF FalsyJson(heightStr) THEN Null
       ELSE parseInt(JsToString(heightStr))

getUpgradePlanBlockHeight(result) ==
  IF isFailure(result) THEN Null
  ELSE LET planHeight == result.data.leaf IN
       IF FalsyJson(planHeight) THEN Null
       ELSE parseInt(JsToString(planHeight))

\* safeGet<string>(nodeInfo, [key]) || ""
OrEmpty(f) == IF f = Null \/ f = Some("") THEN "" ELSE Val(f)

getChainIdentity_monikerOnly(result) ==
  IF isFailure(result) THEN Null
  ELSE LET nodeInfo == result.data.nodeInfo IN
       IF nodeInfo.t = "absent" THEN Null
       ELSE IF OrEmpty(nodeInfo.moniker) = "" THEN Null
       ELSE Some([nodeId |-> OrEmpty(nodeInfo.default_node_id),
                  listenAddr |-> OrEmpty(nodeInfo.listen_addr),
                  network |-> OrEmpty(nodeInfo.network),
                  moniker |-> OrEmpty(nodeInfo.moniker),
                  version |-> OrEmpty(nodeInfo.version),
                  rpcAddress |-> OrEmpty(nodeInfo.other.rpc_address)])

getChainIdentity(result) ==
  IF isFailure(result) THEN Null
  ELSE LET nodeInfo == result.data.nodeInfo IN
       IF nodeInfo.t = "absent" THEN Null
       ELSE IF OrEmpty(nodeInfo.moniker) = "" \/ OrEmpty(nodeInfo.network) = ""
         THEN Null
       ELSE Some([nodeId |-> OrEmpty(nodeInfo.default_node_id),
                  listenAddr |-> OrEmpty(nodeInfo.listen_addr),
                  network |-> OrEmpty(nodeInfo.network),
                  moniker |-> OrEmpty(nodeInfo.moniker),
                  version |-> OrEmpty(nodeInfo.version),
                  rpcAddress |-> OrEmpty(nodeInfo.other.rpc_address)])

InitCosmos ==
  /\ MonitorInit
  /\ pc = "loop"
  /\ DelayIdle
  /\ LoopScheduler
  /\ GitlabIdle
  /\ EdgeIdle

\* A gateway operation is called and its fetchJson settles.
CosmosCall ==
  /\ cosmosPc = "idle"
  /\ \E op \in CosmosOps :
       /\ cosmosOp' = op
       /\ \E reply \in Replies(op) :
            /\ cosmosReply' = <<reply>>
            /\ fetched' = <<fetchJson(reply)>>
  /\ cosmosRet' = <<>>
  /\ cosmosPc' = "fetched"
  /\ UNCHANGED notCosmos

\* The rest of the operation: a value is returned, or the exception that
\* fetchJson let through leaves the operation.
CosmosSettle(value) ==
  /\ IF Val(fetched).kind = "throws"
       THEN /\ cosmosPc' = "threw"
            /\ UNCHANGED cosmosRet
       ELSE /\ cosmosPc' = "returned"
            /\ cosmosRet' = <<value>>
  /\ UNCHANGED <<notCosmos, cosmosOp, cosmosReply, fetched>>

GetBlockHeight ==
  /\ cosmosPc = "fetched"
  /\ cosmosOp = "getBlockHeight"
  /\ CosmosSettle(getBlockHeight(Val(fetched)))

GetUpgradePlanBlockHeight ==
  /\ cosmosPc = "fetched"
  /\ cosmosOp = "getUpgradePlanBlockHeight"
  /\ CosmosSettle(getUpgradePlanBlockHeight(Val(fetched)))

GetChainIdentity ==
  /\ cosmosPc = "fetched"
  /\ cosmosOp = "getChainIdentity"
  /\ CosmosSettle(getChainIdentity(Val(fetched)))

\* The caller goes on to its next call.
CosmosNextCall ==
  /\ cosmosPc = "returned"
  /\ cosmosPc' = "idle"
  /\ cosmosOp' = "none"
  /\ cosmosReply' = <<>>
  /\ fetched' = <<>>
  /\ cosmosRet' = <<>>
  /\ UNCHANGED notCosmos

NextCosmos ==
  \/ CosmosCall
  \/ GetBlockHeight
  \/ GetUpgradePlanBlockHeight
  \/ GetChainIdentity
  \/ CosmosNextCall

SpecCosmos == InitCosmos /\ [][NextCosmos]_vars

\* ------------------------------------------------------------ health server
\* healthServerHandler with setReady and setNotReady; the requests are the
\* environment.  A request URL is its path segments (the text between the
\* slashes, as sent) and whether a query string follows.
notHealth == <<state, pollIntervalMs, aborted, pc, currentHeight, ret,
               cycleHist, runHist, wait, schedHist, delayVars, recVars,
               gitlabVars, cosmosVars, configVars>>

Segments == {"ready", "health", ".", "..", ""}
RawPaths == UNION {[1..n -> Segments] : n \in 0..MaxSegments}
Methods == {"GET", "POST"}
Requests == [method : Methods, path : RawPaths, query : BOOLEAN]

\* new URL(request.url).pathname: the query is dropped and the dot
\* segments are resolved ("." is skipped, ".." removes the segment before
\* it; either one at the end leaves an empty last segment).
RECURSIVE Resolve(_, _)
Resolve(segs, acc) ==
  IF segs = <<>> THEN acc
  ELSE LET seg == Head(segs)
           last == Len(segs) = 1
           kept == IF seg = ".."
                     THEN (IF acc = <<>> THEN acc
                           ELSE SubSeq(acc, 1, Len(acc) - 1))
                     ELSE IF seg = "." THEN acc
                     ELSE Append(acc, seg)
       IN Resolve(Tail(segs),
                  IF last /\ seg \in {".", ".."} THEN Append(kept, "")
                  ELSE kept)

pathname(q) ==
  LET p == Resolve(q.path, <<>>) IN IF p = <<>> THEN <<"">> ELSE p

healthServerHandler_ignoresState(q, st) ==
  IF pathname(q) = <<"ready">> THEN 204 ELSE 404

healthServerHandler(q, st) ==
  IF pathname(q) = <<"ready">>
    THEN (IF st THEN 204 ELSE 503)
    ELSE 404

InitHealth ==
  /\ MonitorInit
  /\ pc = "loop"
  /\ DelayIdle
  /\ LoopScheduler
  /\ GitlabIdle
  /\ EdgeIdle

setReady ==
  /\ ready' = TRUE
  /\ UNCHANGED <<notHealth, request, response>>

setNotReady ==
  /\ ready' = FALSE
  /\ UNCHANGED <<notHealth, request, response>>

\* The server passes a request and healthState to the handler.
HandleRequest ==
  /\ \E q \in Requests :
       /\ request' = <<[q |-> q, ready |-> ready]>>
       /\ response' = <<healthServerHandler(q, ready)>>
  /\ UNCHANGED <<notHealth, ready>>

NextHealth ==
  \/ setReady
  \/ setNotReady
  \/ HandleRequest

SpecHealth == InitHealth /\ [][NextHealth]_vars

\* ------------------------------------------------------------ configuration
\* loadConfig of src/config/config.ts with its module-level cache; the
\* process environment (after dotenv's load) is the environment here.  The
\* optional CICD_VARIABLES is read without any check and is left out.
notConfig == <<state, pollIntervalMs, aborted, pc, currentHeight, ret,
               cycleHist, runHist, wait, schedHist, delayVars, recVars,
               gitlabVars, cosmosVars, healthVars>>

REQUIRED_KEYS == {"cosmosNodeRestUrl", "cicdTriggerToken",
                  "cicdPersonalAccessToken", "cicdUpdateBranch",
                  "cicdProjectApiUrl"}
NumberKeys == {"applicationPort", "pollIntervalMs"}

\* Values the environment gives a variable: unset, or a text; for the two
\* numeric variables one of these texts, for the others the key's own name.
NumberTexts == {<<"0">>, <<"2", "x">>, <<"x">>}
EnvValues(k) ==
  IF k \in NumberKeys THEN {Null} \cup {Some(t) : t \in NumberTexts}
                      ELSE {Null, Some(k)}

DEFAULT_APPLICATION_PORT == <<"8", "0", "8", "0">>
DEFAULT_POLL_INTERVAL_MS == <<"2", "0", "0", "0">>

\* Deno.env.get(name) ?? fallback
EnvOr(v, fallback) == IF v = Null THEN fallback ELSE Val(v)

\* isNaN(n) || n <= 0 on the result of parseInt
InvalidNumber(n) == n = Null \/ Val(n) <= 0

\* The object loadConfig assigns to configCache.
BuildConfig(e) ==
  [applicationPort |->
     Val(parseInt(EnvOr(e["applicationPort"], DEFAULT_APPLICATION_PORT))),
   pollIntervalMs |->
     Val(parseInt(EnvOr(e["pollIntervalMs"], DEFAULT_POLL_INTERVAL_MS))),
   keys |-> [k \in REQUIRED_KEYS |-> EnvOr(e[k], "")]]

\* REQUIRED_KEYS.filter(value == null || value === "")
missingKeys(c) == {k \in REQUIRED_KEYS : c.keys[k] = ""}

Threw == [threw |-> TRUE]
Returned(c) == [threw |-> FALSE, config |-> c]

InitConfig ==
  /\ MonitorInit
  /\ pc = "loop"
  /\ DelayIdle
  /\ LoopScheduler
  /\ GitlabIdle
  /\ EdgeIdle

\* The environment changes between two calls.
SetEnv ==
  /\ \E k \in REQUIRED_KEYS \cup NumberKeys : \E v \in EnvValues(k) :
       env' = [env EXCEPT ![k] = v]
  /\ UNCHANGED <<notConfig, configCache, configRet>>

\* One call of loadConfig.
LoadConfig ==
  /\ IF configCache # Null
       THEN /\ configRet' = <<Returned(Val(configCache))>>
            /\ configCache' = configCache
       ELSE IF \/ InvalidNumber(parseInt(EnvOr(env["applicationPort"],
                                               DEFAULT_APPLICATION_PORT)))
               \/ InvalidNumber(parseInt(EnvOr(env["pollIntervalMs"],
                                               DEFAULT_POLL_INTERVAL_MS)))
              THEN /\ configRet' = <<Threw>>
                   /\ configCache' = configCache
              ELSE /\ configCache' = Some(BuildConfig(env))
                   /\ configRet' =
                        IF missingKeys(BuildConfig(env)) # {}
                          THEN <<Threw>>
                          ELSE <<Returned(BuildConfig(env))>>
  /\ UNCHANGED <<notConfig, env>>

NextConfig ==
  \/ SetEnv
  \/ LoadConfig

SpecConfig == InitConfig /\ [][NextConfig]_vars

\* ------------------------------------------------------------------ claims
CycleEnded == pc = "return"
Triggering == pc = "triggerUpdatePipeline"

\* C1 (as stated): once the trigger has returned success for a plan height H,
\* the pipeline is never triggered again for H (without a reset).
C1_NeverTriggeredTwice ==
  Triggering => Val(upgradePlanBlockHeight) \notin succeeded

\* C1 (amended): a trigger that follows a successful trigger is always
\* preceded by a new plan fetch that returned a height (the success cleared
\* the cache); only after a failed trigger is the pipeline triggered again
\* with no plan fetch in between.
C1_RetriggerNeedsNewPlan ==
  /\ (Triggering /\ lastTrigger # <<>> /\ Val(lastTrigger).ok)
        => planFetchedSince
  /\ (Triggering /\ lastTrigger # <<>> /\ ~planFetchedSince)
        => /\ ~Val(lastTrigger).ok
           /\ upgradePlanBlockHeight = Some(Val(lastTrigger).height)

C1_Witness ==
  /\ Triggering
  /\ lastTrigger # <<>>
  /\ Val(lastTrigger).ok
  /\ planFetchedSince
  /\ Val(upgradePlanBlockHeight) = Val(lastTrigger).height
\* The plan height the cycle worked with: the one compared for readiness,
\* or the cached one when the cycle ended before the comparison.
CyclePlan == IF atCheck # <<>> THEN Val(atCheck).plan ELSE atStart.plan

\* C2: in every cycle with the identity present, a block-height fetch that
\* returned a height h and a cached or just detected plan height P with
\* h >= P, the pipeline trigger is invoked exactly once.
C2_DueTriggersOnce ==
  (/\ CycleEnded
   /\ heightResp # <<>>
   /\ Val(heightResp) # Null
   /\ CyclePlan # Null
   /\ Val(Val(heightResp)) >= Val(CyclePlan))
  => Count(calls, "triggerUpdatePipeline") = 1
\* The cycle reached the readiness comparison with currentHeight < plan.
ComparedNotDue ==
  /\ atCheck # <<>>
  /\ Val(atCheck).plan # Null
  /\ currentHeight # Null
  /\ Val(currentHeight) < Val(Val(atCheck).plan)

\* C3 (as stated): a cycle with currentHeight < upgradePlanHeight never
\* invokes the trigger, performs no wait, leaves plan height, identity and
\* nodeDown as they were when the cycle started, and returns the poll interval.
C3_NotDueCycleChangesNothing ==
  (CycleEnded /\ ComparedNotDue)
  => /\ ~Has(calls, "triggerUpdatePipeline")
     /\ waits = <<>>
     /\ Snapshot = atStart
     /\ ret = Some(pollIntervalMs)

\* C3 (amended): a cycle with currentHeight < upgradePlanHeight never invokes
\* the trigger, performs no wait and returns the poll interval, and its
\* upgrade-execution step leaves plan height, identity and nodeDown as the
\* identity, liveness and plan-detection steps of the same cycle left them.
C3_NotDueStepChangesNothing ==
  (CycleEnded /\ ComparedNotDue)
  => /\ ~Has(calls, "triggerUpdatePipeline")
     /\ ~Has(calls, "delay")
     /\ waits = <<>>
     /\ Snapshot = Val(atCheck)
     /\ ret = Some(pollIntervalMs)

C3_Witness ==
  /\ CycleEnded
  /\ ComparedNotDue
  /\ atStart.down
  /\ atStart.plan = Null
  /\ Snapshot # atStart

\* The calls made after the trigger was invoked.
AfterTrigger ==
  IF Has(calls, "triggerUpdatePipeline")
    THEN LET i == CHOOSE k \in 1..Len(calls) : calls[k] = "triggerUpdatePipeline"
         IN SubSeq(calls, i + 1, Len(calls))
    ELSE <<>>

\* C4: when the trigger returns success, the cached plan height is absent
\* before the quiet-period wait begins, exactly one wait of 600000 ms is
\* requested, the identity is re-fetched only after that wait has ended, the
\* result replaces the cached identity, and the cycle returns the poll interval.
C4_SuccessfulUpgrade ==
  /\ (pc = "quietAfterSuccess")
       => /\ upgradePlanBlockHeight = Null
          /\ waits = <<600000>>
          /\ AfterTrigger = <<"delay">>
          /\ chainIdentity = Val(atTrigger).id
  /\ (pc = "refreshIdentity")
       => /\ AfterTrigger = <<"delay", "delayResolved">>
          /\ chainIdentity = Val(atTrigger).id
  /\ (CycleEnded /\ trigResult = <<TRUE>>)
       => /\ upgradePlanBlockHeight = Null
          /\ waits = <<600000>>
          /\ AfterTrigger = <<"delay", "delayResolved", "getChainIdentity">>
          /\ refreshResp # <<>>
          /\ chainIdentity = Val(refreshResp)
          /\ ret = Some(pollIntervalMs)

C4_Witness ==
  /\ CycleEnded
  /\ trigResult = <<TRUE>>
  /\ Val(atTrigger).plan # Null
  /\ chainIdentity # Val(atTrigger).id

LastFailed == lastTrigger # <<>> /\ ~Val(lastTrigger).ok

\* C5: when the trigger returns failure, the cached plan height and identity
\* are unchanged, exactly one wait of 600000 ms is requested, no identity
\* re-fetch happens and the cycle returns the poll interval; the next cycle
\* whose liveness height is still >= the cached plan height invokes the
\* trigger again without re-fetching the plan.
C5_FailedUpgrade ==
  /\ (CycleEnded /\ trigResult = <<FALSE>>)
       => /\ upgradePlanBlockHeight = Val(atTrigger).plan
          /\ chainIdentity = Val(atTrigger).id
          /\ waits = <<600000>>
          /\ AfterTrigger = <<"delay", "delayResolved">>
          /\ ret = Some(pollIntervalMs)
  /\ LastFailed
       => /\ upgradePlanBlockHeight = Some(Val(lastTrigger).height)
          /\ ~planFetchedSince
  /\ (LastFailed /\ trigResult = <<>>)
       => /\ ~Has(calls, "getUpgradePlan")
          /\ ~(/\ CycleEnded
                /\ heightResp # <<>>
                /\ Val(heightResp) # Null
                /\ Val(Val(heightResp)) >= Val(lastTrigger).height)

C5_Witness ==
  /\ Triggering
  /\ LastFailed
  /\ trigResult = <<>>
  /\ atStart.plan = Some(Val(lastTrigger).height)
  /\ ~Has(calls, "getUpgradePlan")

\* C6: a cycle whose block-height fetch returns null returns 10000 ms, leaves
\* nodeDown true and makes neither the plan fetch nor the trigger; the next
\* cycle whose height fetch succeeds logs 'back online' exactly once and
\* leaves nodeDown false.
C6_LivenessFailureAndRecovery ==
  /\ (CycleEnded /\ heightResp = <<Null>>)
       => /\ ret = Some(10000)
          /\ isCosmosNodeDown
          /\ ~Has(calls, "getUpgradePlan")
          /\ ~Has(calls, "triggerUpdatePipeline")
  /\ (CycleEnded /\ prevHeightResp = <<Null>>
        /\ heightResp # <<>> /\ Val(heightResp) # Null)
       => /\ Count(logs, "backOnline") = 1
          /\ ~isCosmosNodeDown
\* The cycle in flight has completed ensureChainIdentity.
PastEnsure ==
  pc \in {"checkNodeLiveness", "detectUpgradePlan", "handleUpgradeExecution",
          "triggerUpdatePipeline", "quietAfterSuccess", "quietAfterFailure",
          "refreshIdentity", "return"}

\* C7: a cycle with the identity absent whose identity fetch returns null
\* returns 10000 ms, leaves the identity absent and makes no block-height
\* fetch, plan fetch or trigger; the following cycle (which starts with the
\* identity absent) attempts the identity fetch again.
C7_IdentityUnresolved ==
  /\ (CycleEnded /\ idResp = <<Null>>)
       => /\ ret = Some(10000)
          /\ chainIdentity = Null
          /\ calls = <<"getChainIdentity">>
          /\ heightResp = <<>>
          /\ waits = <<>>
  /\ (PastEnsure /\ atStart.id = Null)
       => /\ idResp # <<>>
          /\ calls # <<>>
          /\ Head(calls) = "getChainIdentity"

C7_Witness ==
  /\ CycleEnded
  /\ idResp = <<Null>>
  /\ lastTrigger # <<>>

\* C8: after a cycle that fetched a valid identity the identity is cached;
\* every later cycle makes no identity fetch in its first step and keeps the
\* same identity, which changes only by the post-upgrade refresh or a reset.
C8_CachedInCycle ==
  /\ (PastEnsure /\ atStart.id = Null /\ idResp # <<>> /\ Val(idResp) # Null
        /\ refreshResp = <<>>)
       => chainIdentity = Val(idResp)
  /\ (PastEnsure /\ atStart.id # Null)
       => /\ idResp = <<>>
          /\ (calls # <<>> => Head(calls) # "getChainIdentity")
          /\ (refreshResp = <<>> => chainIdentity = atStart.id)

C8_IdentityCaching ==
  /\ []C8_CachedInCycle
  /\ [][chainIdentity' # chainIdentity
          => \/ pc = "ensureChainIdentity" /\ chainIdentity = Null
             \/ pc = "refreshIdentity"
             \/ pc \in {"loop", "sleep", "stopped", "called"}
                /\ chainIdentity' = Null]_vars

C8_Witness ==
  /\ CycleEnded
  /\ atStart.id # Null
  /\ idResp = <<>>
  /\ chainIdentity = atStart.id
  /\ Has(calls, "getBlockHeight")

\* C9: with a plan height already cached, detectUpgradePlan makes no fetch
\* and leaves the cached value unchanged; with none cached it makes exactly
\* one fetch, so two calls of which the first cached a plan fetch once.
C9_DetectIdempotent ==
  /\ Count(calls, "getUpgradePlan") <= 1
  /\ (PastEnsure /\ atStart.plan # Null)
       => /\ ~Has(calls, "getUpgradePlan")
          /\ (pc = "handleUpgradeExecution"
                => upgradePlanBlockHeight = atStart.plan)
          /\ (atCheck # <<>> => Val(atCheck).plan = atStart.plan)
  /\ (atStart.plan = Null /\ atCheck # <<>>)
       => Count(calls, "getUpgradePlan") = 1

C9_Witness ==
  /\ pc = "handleUpgradeExecution"
  /\ atStart.plan # Null
  /\ ~Has(calls, "getUpgradePlan")

\* The calls of the cycle's steps: those made before the quiet-period wait.
StepCalls ==
  IF Has(calls, "delay")
    THEN LET i == CHOOSE k \in 1..Len(calls) : calls[k] = "delay"
         IN SubSeq(calls, 1, i - 1)
    ELSE calls

Rank(c) ==
  CASE c = "getChainIdentity" -> 1
    [] c = "getBlockHeight" -> 2
    [] c = "getUpgradePlan" -> 3
    [] c = "triggerUpdatePipeline" -> 4

HeightFetched == heightResp # <<>> /\ Val(heightResp) # Null

\* C10: in every cycle the gateway calls occur in the order identity fetch
\* (only if the identity is absent), block-height fetch, plan fetch (only if
\* no plan is cached), trigger; the block-height fetch is made only with the
\* identity present, and the plan fetch and the readiness comparison only
\* with the identity present and a successful block-height fetch.
C10_FixedStepOrder ==
  /\ \A i, j \in 1..Len(StepCalls) :
       i < j => Rank(StepCalls[i]) < Rank(StepCalls[j])
  /\ Has(StepCalls, "getChainIdentity") => atStart.id = Null
  /\ Has(StepCalls, "getUpgradePlan") => atStart.plan = Null /\ HeightFetched
  /\ Has(StepCalls, "triggerUpdatePipeline") => HeightFetched
  /\ pc = "checkNodeLiveness" => chainIdentity # Null
  /\ pc \in {"detectUpgradePlan", "handleUpgradeExecution"}
       => /\ chainIdentity # Null
          /\ HeightFetched
          /\ currentHeight = Val(heightResp)
  /\ atCheck # <<>> => Val(atCheck).id # Null /\ HeightFetched

C10_Witness ==
  /\ CycleEnded
  /\ StepCalls = <<"getChainIdentity", "getBlockHeight", "getUpgradePlan",
                   "triggerUpdatePipeline">>

\* C11: a gateway call that throws ends the cycle without a returned delay
\* (the exception reaches the caller); startMonitoring answers with exactly
\* one sleep of 5,000 ms and then, unless aborted, is ready to run another
\* cycle; it never stops because of the exception.
C11_FaultRetry ==
  /\ [](/\ (pc = "threw" \/ (pc = "called" /\ threw)) => ret = Null
        /\ (pc = "sleep" /\ threw)
             => (sleeps = <<5000>> /\ wait.ms = 5000)
        /\ (pc = "loop" /\ threw /\ ~aborted) => ENABLED StartCycle
        /\ pc = "stopped" => aborted)
  /\ [][(pc = "threw" /\ pc' # pc)
          => pc' = (IF direct THEN "called" ELSE "sleep")]_vars

C11_Witness ==
  /\ pc = "ensureChainIdentity"
  /\ cycles = 2
  /\ ~aborted
  /\ prevHeightResp = <<>>
  /\ nSleeps = 1
  /\ wait.ms = 5000

\* C12: a cycle that returned delay d is followed by exactly one scheduler
\* sleep, of d ms; a cycle starts only from the top of the loop, where the
\* sleep that followed the previous cycle has resolved; and when the signal
\* fires during the n-th sleep, n cycles have run and none starts afterwards.
C12_SchedulerSleep ==
  /\ [](/\ (pc = "sleep" /\ ~threw)
             => (sleeps = <<Val(ret)>> /\ wait.ms = Val(ret))
        /\ (pc = "loop" /\ nSleeps > 0)
             => (Len(sleeps) = 1 /\ wait.ms = sleeps[1] /\ wait.resolves > 0
                   /\ wait.timer # "pending")
        /\ (abortAt # <<>> /\ Val(abortAt).pc = "sleep"
              /\ Val(abortAt).nSleeps < MaxCycles)
             => (Val(abortAt).cycles = Val(abortAt).nSleeps
                   /\ cycles = Val(abortAt).cycles))
  /\ [][(pc' = "ensureChainIdentity" /\ pc # pc')
          => (pc = "loop" \/ (pc = "called" /\ direct'))]_vars

C12_Witness ==
  /\ pc = "stopped"
  /\ abortAt # <<>>
  /\ Val(abortAt).pc = "sleep"
  /\ Val(abortAt).pending
  /\ Val(abortAt).nSleeps = 2
  /\ cycles = 2
  /\ wait.timer = "cleared"

InCycle ==
  pc \in {"ensureChainIdentity", "checkNodeLiveness", "detectUpgradePlan",
          "handleUpgradeExecution", "triggerUpdatePipeline",
          "quietAfterSuccess", "quietAfterFailure", "refreshIdentity"}

CycleStep ==
  \/ EnsureChainIdentity
  \/ CheckNodeLiveness
  \/ DetectUpgradePlan
  \/ HandleUpgradeExecution
  \/ TriggerReturns
  \/ QuietWaitResolves
  \/ RefreshIdentity

\* C14: a signal that fires while a cycle is in flight does not interrupt
\* it: the next step of the cycle is still taken and control leaves the
\* cycle only by its return or its exception; every wait met with the signal
\* aborted is resolved at once; and no cycle starts after the signal fired.
C14_CooperativeCancellation ==
  /\ []((aborted /\ InCycle) => ENABLED CycleStep)
  /\ []((aborted /\ pc \in {"sleep", "quietAfterSuccess", "quietAfterFailure"})
          => (wait.resolves > 0 /\ wait.timer # "pending"))
  /\ []((aborted /\ pc = "loop") => ~ENABLED StartCycle)
  /\ []((abortAt # <<>> /\ Val(abortAt).cycles < MaxCycles)
          => cycles = Val(abortAt).cycles)
  /\ [][(InCycle /\ pc' # pc)
          => (InCycle' \/ pc' \in {"return", "threw"})]_vars

C14_Witness ==
  /\ pc = "stopped"
  /\ abortAt # <<>>
  /\ Val(abortAt).pc = "ensureChainIdentity"
  /\ calls = <<"getChainIdentity", "getBlockHeight", "getUpgradePlan",
               "triggerUpdatePipeline", "delay", "delayResolved",
               "getChainIdentity">>
  /\ cycles = 1
  /\ sleeps = <<pollIntervalMs>>
  /\ wait.timer = "none"

\* C15: monitorChain called with the signal already aborted returns null,
\* makes no gateway call and leaves the monitor state as it was; and
\* startMonitoring called with the signal already aborted returns without
\* running a cycle, without a gateway call and without sleeping.
C15_PreCancelledStart ==
  /\ []((abortAt # <<>> /\ Val(abortAt).pc = "loop"
           /\ Val(abortAt).cycles = 0)
          => (/\ pc \in {"loop", "stopped"}
              /\ cycles = 0
              /\ nSleeps = 0
              /\ calls = <<>>
              /\ wait = NoWait
              /\ Snapshot = [id |-> Null, plan |-> Null, down |-> FALSE]))
  /\ [][(aborted /\ pc = "loop" /\ ~Reset)
          => (pc' = "stopped" /\ state' = state /\ cycles' = cycles
                /\ nSleeps' = nSleeps /\ calls' = calls /\ wait' = wait)]_vars
  /\ [][(aborted /\ pc = "called" /\ ~Reset)
          => (pc' = "called" /\ ret' = Null /\ calls' = <<>>
                /\ state' = state /\ cycles' = cycles /\ wait' = wait)]_vars

C15_Witness ==
  /\ pc = "called"
  /\ aborted
  /\ direct
  /\ cycles = 1
  /\ Val(abortAt).pc = "called"
  /\ ret = Null
  /\ calls = <<>>
  /\ upgradePlanBlockHeight # Null
  /\ atStart = Snapshot

\* C17: a cancellable wait called with the signal already aborted is
\* resolved when it returns, has scheduled no timer, and has added no abort
\* listener to the signal and removed none.
C17_AbortedWaitImmediate ==
  /\ []((settled # <<>> /\ Val(settled).path = "immediate")
          => (/\ wait.resolves = 1
              /\ wait.timer = "none"
              /\ wait.added = 0
              /\ wait.removed = 0
              /\ ~wait.listener))
  /\ [][(dpc = "idle" /\ aborted /\ dpc' = "waiting")
          => (/\ settled' # <<>>
              /\ Val(settled').path = "immediate"
              /\ listeners' = listeners)]_vars

C17_Witness ==
  /\ dpc = "waiting"
  /\ aborted
  /\ delays = 2
  /\ settled # <<>>
  /\ Val(settled).path = "immediate"
  /\ wait.ms = POST_UPGRADE_WAIT_MS

\* C18 (as stated): a cancellable wait started with a non-aborted signal is
\* resolved by whichever of timer expiry and abort comes first, and at the
\* moment it resolves its timer is no longer pending and the abort listener
\* it registered has been removed from the signal, on either path.
C18_WaitReleasesOnResolve ==
  /\ (dpc = "waiting" /\ wait.added = 1 /\ wait.timer # "pending")
       => settled # <<>>
  /\ (settled # <<>> /\ Val(settled).path \in {"timer", "abort"})
       => (/\ Val(settled).timer # "pending"
           /\ ~Val(settled).listener
           /\ wait.added = 1)

\* C16: under either scheduler at most one cycle is in flight at any time,
\* and a cycle begins only when none is in flight and the wait that followed
\* the previous cycle is over (the loop's sleep has resolved, or the one
\* pending timer of the recursive scheduler is the one that expires).
C16_SequentialCycles ==
  /\ [](/\ running <= 1
        /\ running + timers <= 1
        /\ ((InCycle \/ pc \in {"return", "threw"}) <=> running = 1)
        /\ timers > 0 => pc = "scheduled")
  /\ [][running' > running
          => (/\ running = 0
              /\ pc \in {"loop", "main", "scheduled"}
              /\ wait.timer # "pending"
              /\ (pc = "loop" /\ nSleeps > 0) => wait.resolves > 0
              /\ pc = "scheduled" => (timers = 1 /\ timers' = 0))]_vars

C16_Witness ==
  /\ scheduler = "recursive"
  /\ pc = "triggerUpdatePipeline"
  /\ cycles = 2
  /\ nSleeps = 1
  /\ running = 1
  /\ timers = 0

\* C19: the combined trigger-and-poll operation returns true exactly when
\* the trigger request got an OK response and polling returned "success",
\* the status of the last fetch; every other terminal status and every
\* failure gives false.
C19_TrueIffSuccess ==
  gpc = "done"
    => /\ pipelineResult # <<>>
       /\ Val(pipelineResult)
            <=> (/\ ResponseOk(Val(triggerResp))
                 /\ finalStatus = <<"success">>
                 /\ statuses # <<>>
                 /\ statuses[Len(statuses)].status = <<"success">>)
       /\ (finalStatus # <<>>
             /\ Val(finalStatus) \in {"failed", "canceled", "skipped"})
            => ~Val(pipelineResult)
       /\ ~ResponseOk(Val(triggerResp)) => ~Val(pipelineResult)

C19_Witness ==
  /\ gpc = "done"
  /\ pipelineResult = <<TRUE>>
  /\ triggerResp = <<"pipeline">>
  /\ Len(statuses) = 2

Carries(r) == checkPipelineStatus(r) # Null
Terminal(r) == Carries(r) /\ Val(r.status) \in TERMINAL_STATUSES

\* C20: when every response so far carried a status, polling returns the
\* first terminal status, after as many fetches as its position in the
\* sequence, with one sleep of 10,000 ms between consecutive fetches; and
\* nothing is fetched once polling has returned.
C20_FirstTerminalStatus ==
  /\ []((\A i \in 1..Len(statuses) : Carries(statuses[i]))
          => /\ \A i \in 1..(Len(statuses) - 1) : ~Terminal(statuses[i])
             /\ finalStatus # <<>>
                  => /\ Terminal(statuses[Len(statuses)])
                     /\ finalStatus = statuses[Len(statuses)].status
                     /\ Len(pollSleeps) = Len(statuses) - 1
             /\ \A i \in 1..Len(pollSleeps) : pollSleeps[i] = 10000
             /\ (gpc = "poll" /\ finalStatus = <<>>)
                  => Len(pollSleeps) = Len(statuses))
  /\ [][finalStatus # <<>>
          => (statuses' = statuses /\ pollSleeps' = pollSleeps
                /\ finalStatus' = finalStatus)]_vars

C20_Witness ==
  /\ gpc = "done"
  /\ statuses = <<[ok |-> TRUE, status |-> <<"pending">>],
                  [ok |-> TRUE, status |-> <<"success">>]>>
  /\ finalStatus = <<"success">>
  /\ pollSleeps = <<10000>>
  /\ pipelineResult = <<TRUE>>

\* A status fetch that failed: fetchJson reported a failure (transport
\* error or non-OK response), or the JSON has no status (none, or empty).
FetchFailed(r) == ~r.ok \/ r.status = Null \/ r.status = <<"">>

\* C21: a failed status fetch (transport error, non-OK response, response
\* without a status) is the last fetch: polling returns "failed" at once,
\* with no sleep after it and no further fetch, and the combined trigger
\* operation returns false.
C21_FailClosedPolling ==
  /\ [](\A i \in 1..Len(statuses) :
          FetchFailed(statuses[i])
            => /\ i = Len(statuses)
               /\ finalStatus = <<"failed">>
               /\ Len(pollSleeps) = i - 1
               /\ gpc \in {"polled", "done"}
               /\ gpc = "done" => pipelineResult = <<FALSE>>)
  /\ [][(statuses # <<>> /\ FetchFailed(statuses[Len(statuses)]))
          => (statuses' = statuses /\ pollSleeps' = pollSleeps
                /\ finalStatus' = finalStatus)]_vars

C21_Witness ==
  /\ gpc = "done"
  /\ statuses = <<[ok |-> TRUE, status |-> <<"running">>],
                  [ok |-> FALSE, status |-> <<>>]>>
  /\ finalStatus = <<"failed">>
  /\ pollSleeps = <<10000>>
  /\ pipelineResult = <<FALSE>>

\* A fetched status that is in neither set of src/service/gitlab.ts.
UnknownStatus(r) ==
  /\ ~FetchFailed(r)
  /\ Val(r.status) \notin TERMINAL_STATUSES \cup NON_TERMINAL_STATUSES
NonTerminalStatus(r) ==
  ~FetchFailed(r) /\ Val(r.status) \in NON_TERMINAL_STATUSES

\* C22: a status outside the terminal and the non-terminal set never ends
\* polling: like a non-terminal one it is followed by one sleep of
\* 10,000 ms and another fetch; polling returns only after a terminal
\* status or a failed fetch, however many fetches came before.
C22_UnknownKeepsPolling ==
  /\ [](\A i \in 1..Len(statuses) :
          (UnknownStatus(statuses[i]) \/ NonTerminalStatus(statuses[i]))
            => /\ Len(pollSleeps) >= i
               /\ pollSleeps[i] = 10000
               /\ i = Len(statuses)
                    => (finalStatus = <<>> /\ gpc \in {"pollSleep", "poll"}))
  /\ [](finalStatus # <<>>
          => /\ statuses # <<>>
             /\ LET last == statuses[Len(statuses)] IN
                \/ FetchFailed(last)
                \/ Val(last.status) \in TERMINAL_STATUSES)
  /\ [][gpc = "pollSleep" => (gpc' = "poll" /\ finalStatus' = <<>>)]_vars
  /\ []((gpc = "poll" /\ Len(statuses) < MaxPolls) => ENABLED FetchStatus)

C22_Witness ==
  /\ gpc = "poll"
  /\ Len(statuses) = MaxPolls
  /\ \A i \in 1..MaxPolls : statuses[i] = [ok |-> TRUE, status |-> <<"preparing">>]
  /\ Len(pollSleeps) = MaxPolls
  /\ finalStatus = <<>>

\* An OK trigger response from which no pipeline id can be read: the body
\* is not JSON, is JSON null, or is an object without an id.
IdUnparsable(t) == t \in {"badJson", "nullJson", "noId"}

\* C23: when the trigger request gets a non-OK response, or an OK response
\* from which the id of the created pipeline cannot be parsed, the
\* operation returns false and no status is ever fetched.
C23_RejectedTriggerNoPolling ==
  (triggerResp # <<>>
     /\ (Val(triggerResp) = "notOk" \/ IdUnparsable(Val(triggerResp))))
    => /\ gpc = "done"
       /\ pipelineResult = <<FALSE>>
       /\ statuses = <<>>

\* C24: the delay a cycle returns is 10,000 ms when its identity fetch or
\* its block-height fetch failed (returned null) and the configured poll
\* interval in every other outcome; every sleep of the scheduler is
\* 10,000 ms, 5,000 ms or the poll interval, and 600,000 ms is never a
\* returned delay.
C24_FixedDelayPolicy ==
  /\ CycleEnded
       => LET failed == idResp = <<Null>> \/ heightResp = <<Null>> IN
          /\ failed => ret = Some(10000)
          /\ ~failed => ret = Some(pollIntervalMs)
  /\ \A i \in 1..Len(sleeps) : sleeps[i] \in {10000, 5000, pollIntervalMs}
  /\ ret # Some(600000)

\* C25: the chain data gateway never throws: when the request fails in
\* transport, gets an HTTP error status or a body that is not JSON, each of
\* the identity, block-height and upgrade-plan operations returns null; the
\* same holds when the JSON lacks the value asked for.
C25_GatewayNeverThrows ==
  /\ cosmosPc # "threw"
  /\ cosmosPc = "returned"
       => /\ cosmosRet # <<>>
          /\ Val(cosmosReply).transport \in {"networkError", "httpError",
                                             "badJson"}
               => cosmosRet = <<Null>>
          /\ (Val(cosmosReply).transport = "json"
                /\ Val(cosmosReply).body = NoBody)
               => cosmosRet = <<Null>>

C25_Witness ==
  /\ cosmosPc = "returned"
  /\ cosmosOp = "getUpgradePlanBlockHeight"
  /\ Val(cosmosReply).transport = "networkError"
  /\ cosmosRet = <<Null>>

\* The text of a field that is present and not empty.
Filled(f) == f # Null /\ f # Some("")

\* C26: getChainIdentity returns a record exactly when the response is JSON
\* whose default_node_info has a non-empty moniker and a non-empty network;
\* the record carries these two, every other field with the text the
\* response gives for it, and the empty string for each one it lacks.
C26_IdentityRecord ==
  (cosmosPc = "returned" /\ cosmosOp = "getChainIdentity")
    => LET reply == Val(cosmosReply)
           info == reply.body.nodeInfo
           complete == /\ reply.transport = "json"
                       /\ info.t = "object"
                       /\ Filled(info.moniker)
                       /\ Filled(info.network)
           Field(f) == IF Filled(f) THEN Val(f) ELSE ""
       IN /\ (Val(cosmosRet) # Null) <=> complete
          /\ complete
               => Val(Val(cosmosRet)) =
                    [moniker |-> Val(info.moniker),
                     network |-> Val(info.network),
                     nodeId |-> Field(info.default_node_id),
                     listenAddr |-> Field(info.listen_addr),
                     version |-> Field(info.version),
                     rpcAddress |-> IF info.other.t = "object"
                                      THEN Field(info.other.rpc_address)
                                      ELSE ""]

C26_Witness ==
  /\ cosmosPc = "returned"
  /\ cosmosOp = "getChainIdentity"
  /\ Val(cosmosReply).body.nodeInfo.default_node_id = Null
  /\ Val(cosmosReply).body.nodeInfo.other.t = "absent"
  /\ cosmosRet = <<Some([moniker |-> "mon", network |-> "net", nodeId |-> "",
                         listenAddr |-> "addr", version |-> "",
                         rpcAddress |-> ""])>>

\* C29: the handler answers a request whose path is /ready with 204 when
\* the health state it is given is ready and with 503 when it is not,
\* whatever the method and the query; it answers every other path with
\* 404, whatever the health state.
C29_ReadyEndpoint ==
  response # <<>>
    => LET q == Val(request).q
           st == Val(request).ready
       IN /\ pathname(q) = <<"ready">>
               => Val(response) = (IF st THEN 204 ELSE 503)
          /\ pathname(q) # <<"ready">> => Val(response) = 404
          /\ q.path = <<"ready">> => Val(response) \in {204, 503}
          /\ q.path \in {<<>>, <<"health">>, <<"ready", "">>,
                         <<"ready", "ready">>, <<"", "ready">>}
               => Val(response) = 404

C29_Witness ==
  /\ ~ready
  /\ request = <<[q |-> [method |-> "GET", path |-> <<"ready">>,
                         query |-> TRUE],
                  ready |-> FALSE]>>
  /\ response = <<503>>

\* The cycle that is about to hand over to the scheduler failed on the
\* network: a chain data fetch returned null, or a gateway call threw.
NetworkFailed == idResp = <<Null>> \/ heightResp = <<Null>> \/ pc = "threw"

\* The scheduler starts the sleep that follows a cycle.
SleepStarts == pc # "sleep" /\ pc' = "sleep"

C30_LivenessExactlyOnAbsent ==
  (heightResp # <<>> /\ (InCycle \/ CycleEnded))
    => IF Val(heightResp) = Null
         THEN /\ pc = "return"
              /\ ret = Some(10000)
              /\ currentHeight = Null
         ELSE /\ currentHeight = Val(heightResp)
              /\ ~Has(logs, "waiting")
              /\ pc = "return" => ret = Some(pollIntervalMs)

\* What the claim compares: the monitor state, the gateway calls of the
\* cycle and the delay the scheduler was asked for.
Observed == <<state, calls, sleeps>>

\* The scheduler is between two cycles and will start the next one unless
\* the signal fires first.
Scheduled ==
  IF scheduler = "loop" THEN pc \in {"loop", "sleep"}
  ELSE pc \in {"main", "scheduled"}

\* C27: the loop and the recursive scheduler drive the cycle in the same
\* way.  Under either one a cycle starts only while the signal is not
\* aborted, from the state the previous cycle left and with nothing called
\* yet; inside the cycle only the steps of monitorChain (or an exception of
\* a gateway) are taken; a cycle that returned delay d is followed by a
\* request for d ms and one that threw by a request for 5,000 ms, with the
\* state untouched; between cycles nothing observed changes; a scheduler
\* that is not aborted always gets to the next cycle, and one that is
\* aborted never does.
C27_SchedulersAgree ==
  /\ [][/\ running' > running
             => /\ ~aborted
                /\ Scheduled
                /\ state' = state
                /\ calls' = <<>>
                /\ sleeps' = <<>>
        /\ (InCycle /\ pc' # pc) => (CycleStep \/ GatewayThrows)
        /\ (pc \in {"return", "threw"} /\ pc' # pc)
             => /\ sleeps' = <<IF pc = "threw" THEN 5000 ELSE Val(ret)>>
                /\ state' = state
                /\ calls' = calls
                /\ running' = running - 1
                /\ pc' = (IF scheduler = "loop" THEN "sleep"
                          ELSE IF aborted THEN "stopped" ELSE "scheduled")
        /\ (~InCycle /\ running' = running)
             => (Observed' = Observed \/ Reset)]_vars
  /\ [](/\ (Scheduled /\ ~aborted)
             => \/ ENABLED StartCycle
                \/ ENABLED RecursiveCall
                \/ ENABLED ExecuteMonitoringCycle
                \/ (pc = "sleep" /\ wait.timer = "pending"
                      /\ ENABLED TimerFires)
                \/ (pc = "sleep" /\ ENABLED SleepResolves)
        /\ pc = "stopped" => (aborted /\ running = 0 /\ timers = 0))
  /\ [][aborted => running' <= running]_vars

C27_Witness ==
  /\ scheduler = "recursive"
  /\ pc = "scheduled"
  /\ cycles = 2
  /\ threw
  /\ sleeps = <<5000>>
  /\ timers = 1
  /\ ~aborted

C32_RefreshUnvalidated ==
  /\ []((refreshResp # <<>> /\ CycleEnded)
          => chainIdentity = Val(refreshResp))
  /\ [][(running' > running /\ refreshResp = <<Null>>)
          => (chainIdentity' = Null /\ atStart'.id = Null)]_vars
  /\ []((atStart.id = Null /\ (InCycle \/ CycleEnded))
          => /\ calls # <<>> => calls[1] = "getChainIdentity"
             /\ PastEnsure => idResp # <<>>
             /\ (CycleEnded /\ idResp = <<Null>>)
                  => /\ ret = Some(10000)
                     /\ calls = <<"getChainIdentity">>)

C32_Witness ==
  /\ pc = "return"
  /\ lastTrigger # <<>>
  /\ Val(lastTrigger).ok
  /\ trigResult = <<>>
  /\ atStart.id = Null
  /\ idResp = <<Null>>
  /\ ret = Some(10000)

\* The cycle in flight invokes the pipeline trigger.
TriggerInvoked == pc = "handleUpgradeExecution" /\ pc' = "triggerUpdatePipeline"

\* C33: in a monitoring run the trigger is invoked at most once per cycle,
\* after a liveness check of that cycle that succeeded; a cycle whose
\* trigger returned (with either result) requests one wait of 600,000 ms
\* and ends only when that wait is over; and a trigger that follows an
\* earlier one is invoked after a scheduler sleep that came after that
\* wait, so a failed trigger is re-attempted in a later cycle only.
C33_ThrottledReattempts ==
  /\ [][(TriggerInvoked /\ ~direct)
          => /\ Count(calls', "triggerUpdatePipeline") = 1
             /\ trigResult = <<>>
             /\ Has(calls, "getBlockHeight")
             /\ heightResp # <<>> /\ ~Falsy(Val(heightResp))
             /\ lastTrigger # <<>>
                  => /\ nSleeps > 0
                     /\ wait.ms \in {pollIntervalMs, 10000}
                     /\ wait.ms # 600000
                     /\ wait.resolves > 0]_vars
  /\ []((trigResult # <<>> /\ (InCycle \/ CycleEnded))
          => /\ waits = <<600000>>
             /\ wait.ms = 600000
             /\ Count(calls, "triggerUpdatePipeline") = 1
             /\ pc \in {"refreshIdentity", "return"}
                  => (wait.resolves > 0 /\ Has(calls, "delayResolved")))
  /\ [][(pc = "return" /\ pc' = "sleep" /\ trigResult # <<>>)
          => (wait.ms = 600000 /\ wait'.ms = pollIntervalMs)]_vars

C33_Witness ==
  /\ pc = "triggerUpdatePipeline"
  /\ ~direct
  /\ lastTrigger # <<>>
  /\ ~Val(lastTrigger).ok
  /\ cycles = 2
  /\ wait.ms = pollIntervalMs
  /\ pollIntervalMs = 2000

\* C34: the combined trigger operation never throws: it always returns a
\* boolean; a rejected trigger request, an exception while the request body
\* is built and a failure while polling all give false; and when the
\* variables JSON is malformed no trigger request is sent.
C34_TriggerNeverThrows ==
  /\ gpc \in {"idle", "poll", "pollSleep", "polled", "done"}
  /\ gpc = "done" <=> pipelineResult # <<>>
  /\ pipelineResult \in {<<>>, <<TRUE>>, <<FALSE>>}
  /\ (gpc = "done"
        /\ Val(triggerResp) \in {"badVariables", "fetchThrows", "notOk"})
       => (pipelineResult = <<FALSE>> /\ statuses = <<>>)
  /\ (triggerResp # <<>> /\ Val(triggerResp) = "badVariables") => posts = 0
  /\ (triggerResp # <<>> /\ Val(triggerResp) # "badVariables") => posts = 1
  /\ (gpc = "done" /\ statuses # <<>>
        /\ ~statuses[Len(statuses)].ok)
       => pipelineResult = <<FALSE>>

C34_Witness ==
  /\ gpc = "done"
  /\ triggerResp = <<"badVariables">>
  /\ posts = 0
  /\ pipelineResult = <<FALSE>>

\* C35: once the cancellation signal has fired, no pipeline trigger is
\* invoked afterwards.
C35_NoTriggerAfterAbort ==
  [][aborted => ~TriggerInvoked]_vars

\* C35 (amended): once the signal has fired no new cycle starts, so a
\* trigger is invoked after the abort only by the cycle that was in flight
\* when the signal fired, and at most once.
C35_TriggerAfterAbortOnlyInFlight ==
  /\ [][(TriggerInvoked /\ aborted)
          => /\ abortAt # <<>>
             /\ Val(abortAt).pc \in {"ensureChainIdentity", "midCycle"}
             /\ Val(abortAt).cycles < MaxCycles
                  => Val(abortAt).cycles = cycles
             /\ Count(calls', "triggerUpdatePipeline") = 1]_vars
  /\ [][aborted => running' <= running]_vars

C35_Witness ==
  /\ pc = "triggerUpdatePipeline"
  /\ aborted
  /\ abortAt # <<>>
  /\ Val(abortAt).pc = "midCycle"
  /\ calls = <<"getBlockHeight", "getUpgradePlan", "triggerUpdatePipeline">>
  /\ cycles = 2

\* The signal fires in this step.
SignalFires == ~aborted /\ aborted'

\* C36: a run of startMonitoring whose signal is aborted eventually
\* returns, given that the event loop keeps running and every gateway call
\* settles; a scheduler sleep or quiet-period wait that is pending when the
\* signal fires is resolved in that very step with its timer cleared,
\* whereas a pipeline trigger in flight (with its status polling and the
\* 10,000 ms sleeps inside it) is not ended by the signal and returns only
\* when the gateway returns.
C36_TerminatesAfterAbort ==
  /\ pc = "loop" => [](aborted => <>(pc = "stopped"))
  /\ [][(SignalFires /\ wait.timer = "pending"
           /\ pc \in {"sleep", "quietAfterSuccess", "quietAfterFailure"})
          => (/\ wait'.resolves = 1
              /\ wait'.timer = "cleared"
              /\ ~wait'.listener)]_vars
  /\ [][(SignalFires /\ pc = "triggerUpdatePipeline")
          => (pc' = pc /\ trigResult' = <<>> /\ wait' = wait)]_vars
  /\ [][(pc = "triggerUpdatePipeline" /\ pc' # pc)
          => (TriggerReturns \/ GatewayThrows)]_vars

C36_Witness ==
  /\ pc = "stopped"
  /\ abortAt # <<>>
  /\ Val(abortAt).pc = "midCycle"
  /\ Val(abortAt).pending
  /\ Val(abortAt).cycles = 2
  /\ waits = <<600000>>
  /\ trigResult = <<FALSE>>
  /\ sleeps = <<pollIntervalMs>>


\* Log lines whose text is built from the fields of state.chainIdentity.
IdentityReads == {"waiting", "backOnline", "planDetected", "upgradeCompleted"}

\* C37: when resets happen only between cycles, the cached identity is
\* present at every point of a cycle that reads its fields: every step that
\* writes the liveness warning, the recovery log, the plan-detected log or
\* the upgrade-completed log finds state.chainIdentity non-null, and so does
\* every position of a cycle past ensureChainIdentity up to the identity
\* refresh.
C37_IdentityPresentWhenRead ==
  /\ [][(\E i \in 1..Len(logs') :
           i > Len(logs) /\ logs'[i] \in IdentityReads)
          => chainIdentity # Null]_vars
  /\ [](pc \in {"checkNodeLiveness", "detectUpgradePlan",
                "handleUpgradeExecution", "triggerUpdatePipeline",
                "quietAfterSuccess", "quietAfterFailure", "refreshIdentity"}
          => chainIdentity # Null)

C37_Witness ==
  /\ pc = "refreshIdentity"
  /\ cycles = 2
  /\ atStart.down
  /\ Has(logs, "backOnline")
  /\ Has(logs, "planDetected")
  /\ Has(logs, "upgradeCompleted")


\* C38 as stated: a cycle that ends by throwing leaves the cached identity,
\* the cached upgrade-plan height and nodeDown as they were when the cycle
\* started.
C38_ThrowRestoresState == pc = "threw" => Snapshot = atStart

\* C38, amended: a cycle that ends by throwing keeps what its completed
\* steps wrote and nothing else.  The throw and the scheduler's catch
\* change no field of the monitor state; at the throw the identity is the
\* one ensureChainIdentity fetched in this cycle, else the one of the cycle
\* start; nodeDown is false once the liveness check has passed, else as at
\* the start; the plan height differs from the start only after this
\* cycle's plan fetch or its successful trigger.
C38_ThrowKeepsCompletedSteps ==
  /\ [][(pc' = "threw" \/ pc = "threw") => state' = state]_vars
  /\ [](pc = "threw" =>
          /\ chainIdentity = (IF idResp # <<>> THEN Val(idResp)
                                               ELSE atStart.id)
          /\ isCosmosNodeDown = (IF heightResp # <<>> THEN FALSE
                                                      ELSE atStart.down)
          /\ (~Has(calls, "getUpgradePlan") /\ trigResult # <<TRUE>>)
               => upgradePlanBlockHeight = atStart.plan
          /\ trigResult = <<TRUE>> => upgradePlanBlockHeight = Null)

C38_Witness ==
  /\ pc = "threw"
  /\ atStart.id = Null
  /\ chainIdentity # Null
  /\ atStart.plan = Null
  /\ upgradePlanBlockHeight # Null
  /\ Has(calls, "getUpgradePlan")
  /\ cycles = 1


\* C39: every loadConfig call either throws or returns a configuration
\* whose required keys are all non-empty and whose port and poll interval
\* are positive integers, and a call that throws leaves configCache unset.
C39_LoadConfigValidates ==
  /\ (configRet # <<>> /\ ~Val(configRet).threw)
       => /\ missingKeys(Val(configRet).config) = {}
          /\ Val(configRet).config.applicationPort > 0
          /\ Val(configRet).config.pollIntervalMs > 0
  /\ (configRet # <<>> /\ Val(configRet).threw) => configCache = Null


\* C40: in the recursive scheduler the promise of scheduleNextMonitor, and
\* with it the enclosing monitorChain call, resolves only when no monitoring
\* cycle is in flight, also when the abort arrives after the timer fired.
C40_ResolvesOnlyWhenIdle == topResolved => running = 0
====
